---- MODULE Spec2Model ----
(***************************************************************************)
(* A model of the subtitle pipeline of yt-subtitle-maker.                  *)
(*                                                                         *)
(*   BridgeSpec     core/audio_downloader.py  download_media_generator:    *)
(*                  the worker thread (run_download, progress_hook), the   *)
(*                  queue, the generator that consumes it and its caller.  *)
(*   TranslateSpec  core/translator_gemini.py                              *)
(*                  translate_segments_with_gemini: one action per         *)
(*                  iteration of the batch loop.                           *)
(*   PipelineSpec   gui/main_window.py WorkerThread.run and                *)
(*                  backend_api.py process_video: one run, stage by stage. *)
(*   AddressSpec    the file names the runs write and backend_api.py       *)
(*                  list_outputs, which parses them back.                  *)
(*   EstimatorSpec  core/transcriber.py StdoutCapture in transcribe_audio. *)
(*   FormatSpec     core/subtitles.py format_timestamp.                    *)
(*   CaptureSpec    core/transcriber.py StdoutCapture used by two          *)
(*                  transcriptions at once.                                *)
(*   HistorySpec    gui/main_window.py MainWindow.add_to_history.          *)
(*   DeleteSpec     backend_api.py delete_output over the output folder.   *)
(*   ConfigSpec     core/config.py and the endpoints of backend_api.py     *)
(*                  that read or write download_dir.                       *)
(***************************************************************************)
EXTENDS Integers, Sequences, FiniteSets, TLC

VARIABLES
    \* ---- Progress Bridge (download_media_generator) ----
    q,          \* queue.Queue(): the items put and not yet taken
    enq,        \* history: every item ever put on q, in put order
    yielded,    \* history: every event the generator yielded to its caller
    wpc,        \* where the worker thread (run_download) stands
    gpc,        \* where the generator stands
    item,       \* the generator's local `item`
    joined,     \* t.join() has returned
    hooks,      \* number of progress_hook calls made by yt-dlp so far
    exc,        \* the exception caught by run_download's except clause
    \* ---- Batch Translation Engine (translate_segments_with_gemini) ----
    segments,   \* the list of segment dicts, mutated in place
    tpc,        \* "uncalled" | "idle" | "loop" | "returned" | "raised"
    batch_idx,  \* enumerate() index of the next iteration
    i,          \* range(0, total_segments, BATCH_SIZE) value of the next iteration
    has_cb,     \* progress_callback is not None
    tlog,       \* history: callback invocations, collaborator calls, sleeps
    raised,     \* the exception that left the function ("raised" only)
    segments0,  \* history: the segment list as it was passed in
    \* ---- Pipeline Orchestrator (WorkerThread.run, process_video) ----
    mode,       \* "gui" (WorkerThread.run) | "http" (process_video)
    emitted,    \* the values given to progress_value.emit, in order
    ppc,        \* the stage the run stands before, "done" or "failed"
    plog,       \* history: the stages started and the terminal event
    disk,       \* the artifacts on disk
    outcomes,   \* the terminal outcomes delivered to the caller
    enable_translation,  \* config.enable_translation / req.enable_translation
    has_key,    \* bool(gemini_api_key)
    collab_failed,       \* history: a collaborator call of this run failed
    failed_at,  \* history: the stage whose failure ended the run
    \* ---- Output Addressing Scheme (file names, list_outputs) ----
    outdir,     \* the file names in the output directory
    written,    \* history: what each file was written for
    listed,     \* the OutputFile records of the last list_outputs scan
    \* ---- Stage Progress Estimator (StdoutCapture) ----
    duration,   \* the duration passed to transcribe_audio, in milliseconds
    est_cb,     \* progress_callback is not None
    epc,        \* "idle" | "capturing" | "plain" | "exited"
    chunks,     \* history: the chunks whisper printed
    est_calls,  \* history: the values passed to the callback
    \* ---- Timestamp formatting (format_timestamp) ----
    fmt_in,     \* the time to format, in whole milliseconds
    fmt_out,    \* the string returned (<<>>: not called yet)
    \* ---- Two transcriptions with progress capture (StdoutCapture) ----
    sys_stdout,       \* sys.stdout: "console" or the capture installed
    original_stdout,  \* per capture: self.original_stdout
    cpc,              \* per capture: "new", "constructed", "entered", "exited"
    received,         \* per capture: the writes its write() has been given
    \* ---- History (MainWindow.add_to_history) ----
    history,      \* self.config.history
    hist_saved,   \* the history in config.json
    hist_ui,      \* the entries of the history list widget, top first
    hlast,        \* history: the last call, and the entry it found
    \* ---- Deleting outputs (delete_output) ----
    out_tree,     \* the entries of output_dir: folders and flat files
    del_last,     \* history: the last delete_output call and what it removed
    \* ---- Configuration record (core/config.py and the config endpoints) ----
    cfg_file,     \* config.json: <<>> (no file) or <<the object saved>>
    cfg_want,     \* history: the download_dir of the last update ("": none)
    cfg_last      \* history: the last endpoint call and its answer

bridgeVars == <<q, enq, yielded, wpc, gpc, item, joined, hooks, exc>>
transVars  == <<segments, tpc, batch_idx, i, has_cb, tlog, raised, segments0>>
pipeVars   == <<mode, ppc, plog, disk, outcomes, enable_translation, has_key,
                collab_failed, failed_at, emitted>>
addrVars   == <<outdir, written, listed>>
estVars    == <<duration, est_cb, epc, chunks, est_calls>>
fmtVars    == <<fmt_in, fmt_out>>
\* The state outside the Progress Bridge and the translation engine
capVars    == <<sys_stdout, original_stdout, cpc, received>>
\* The components added to the program's surface: each has its own
\* specification
histVars   == <<history, hist_saved, hist_ui, hlast>>
delVars    == <<out_tree, del_last>>
cfgVars    == <<cfg_file, cfg_want, cfg_last>>
extraVars  == <<capVars, histVars, delVars, cfgVars>>
coreVars   == <<bridgeVars, transVars, pipeVars, addrVars, estVars, fmtVars>>
capOther   == <<coreVars, histVars, delVars, cfgVars>>
histOther  == <<coreVars, capVars, delVars, cfgVars>>
delOther   == <<coreVars, capVars, histVars, cfgVars>>
cfgOther   == <<coreVars, capVars, histVars, delVars>>
restVars   == <<pipeVars, addrVars, estVars, fmtVars, extraVars>>
vars       == <<bridgeVars, transVars, restVars>>

\* The components a specification does not exercise stay as constructed.
PipeIdle ==
    /\ mode = "gui"
    /\ ppc = "idle"
    /\ emitted = <<>>
    /\ plog = <<>>
    /\ disk = {}
    /\ outcomes = <<>>
    /\ enable_translation = FALSE
    /\ has_key = FALSE
    /\ collab_failed = FALSE
    /\ failed_at = ""
AddrIdle ==
    /\ outdir = {}
    /\ written = {}
    /\ listed = {}
EstIdle ==
    /\ duration = 0
    /\ est_cb = FALSE
    /\ epc = "idle"
    /\ chunks = <<>>
    /\ est_calls = <<>>
FmtIdle ==
    /\ fmt_in = 0
    /\ fmt_out = <<>>
Captures == {"A", "B"}
CapIdle ==
    /\ sys_stdout = "console"
    /\ original_stdout = [c \in Captures |-> "console"]
    /\ cpc = [c \in Captures |-> "new"]
    /\ received = [c \in Captures \cup {"console"} |-> 0]
NoTitle == "<None>"    \* None, as a title or a language
NoEntry == [url |-> 0, title_original |-> NoTitle, title_translated |-> NoTitle,
            target_lang |-> NoTitle, last_used |-> 0]
NoCall  == [n |-> 0, url |-> 0, title_translated |-> NoTitle,
            target_lang |-> NoTitle, found |-> NoEntry]
HistIdle ==
    /\ history = <<>>
    /\ hist_saved = <<>>
    /\ hist_ui = <<>>
    /\ hlast = NoCall
NoDelete == [called |-> FALSE, video_id |-> <<>>, ok |-> TRUE, deleted |-> FALSE,
             removed |-> {}]
DelIdle ==
    /\ out_tree = {}
    /\ del_last = NoDelete
NoAnswer == [op |-> "none", ok |-> TRUE, download_dir |-> ""]
CfgIdle ==
    /\ cfg_file = <<>>
    /\ cfg_want = ""
    /\ cfg_last = NoAnswer
ExtraIdle == CapIdle /\ HistIdle /\ DelIdle /\ CfgIdle
RestIdle == PipeIdle /\ AddrIdle /\ EstIdle /\ FmtIdle /\ ExtraIdle

(***************************************************************************)
(* Text.  A message is a sequence of one-character strings, so that        *)
(* str.upper() and the `in` substring test are computed, not assumed.      *)
(***************************************************************************)
LowerChars == <<"a", "p", "i", "k", "e", "y">>
UpperChars == <<"A", "P", "I", "K", "E", "Y">>

\* str.upper() on one character
UpperChar(c) ==
    IF \E n \in 1..Len(LowerChars) : LowerChars[n] = c
    THEN UpperChars[CHOOSE n \in 1..Len(LowerChars) : LowerChars[n] = c]
    ELSE c

\* str.upper()
Upper(s) == [n \in 1..Len(s) |-> UpperChar(s[n])]

\* needle in hay
Contains(hay, needle) ==
    \E k \in 0..(Len(hay) - Len(needle)) :
        \A n \in 1..Len(needle) : hay[k + n] = needle[n]

API_KEY == <<"A", "P", "I", "_", "K", "E", "Y">>

(***************************************************************************)
(* Progress Bridge: core/audio_downloader.py, download_media_generator     *)
(***************************************************************************)
MaxHooks == 3        \* progress_hook calls yt-dlp makes in one download

\* str(e) of the exceptions the blocking download raises
ExcMsgs == {"network unreachable", "hook failed"}

\* The sentinel put by run_download's finally clause (Python's None).
None == [status |-> "None", downloaded |-> 0, error |-> ""]

Downloading(n) == [status |-> "downloading", downloaded |-> n, error |-> ""]
Processing     == [status |-> "processing", downloaded |-> 0, error |-> ""]
Finished       == [status |-> "finished", downloaded |-> 0, error |-> ""]
Error(msg)     == [status |-> "error", downloaded |-> 0, error |-> msg]

\* item.get('status') in ['finished', 'error']
IsTerminal(ev) == ev.status \in {"finished", "error"}

\* q.put(x) for each x of xs, in order
PutAll(xs) == /\ q' = q \o xs
              /\ enq' = enq \o xs

\* q.put(x)
Put(x) == PutAll(<<x>>)

\* The events progress_hook(d) puts, for d['status'] = st
HookEvents(st, n) ==
    IF st = "downloading" THEN <<Downloading(n)>>
    ELSE IF st = "finished" THEN <<Processing>>
    ELSE <<>>

\* yt-dlp calls progress_hook(d) from inside extract_info.
ProgressHook(st) ==
    /\ wpc = "extract"
    /\ hooks < MaxHooks
    /\ hooks' = hooks + 1
    /\ PutAll(HookEvents(st, hooks + 1))
    /\ UNCHANGED <<yielded, wpc, gpc, item, joined, exc, transVars, restVars>>

\* YoutubeDL(...) or extract_info raises (also: a progress hook raised and
\* yt-dlp let the exception through): control goes to the except clause.
ExtractRaises(msg) ==
    /\ wpc = "extract"
    /\ wpc' = "except"
    /\ exc' = msg
    /\ UNCHANGED <<q, enq, yielded, gpc, item, joined, hooks, transVars, restVars>>

\* extract_info returns; `if not info` decides the branch.
ExtractReturns(info) ==
    /\ wpc = "extract"
    /\ wpc' = IF info = "none" THEN "noinfo" ELSE "post"
    /\ UNCHANGED <<q, enq, yielded, gpc, item, joined, hooks, exc, transVars, restVars>>

\* Mutant of NoInfo: the early return leaves the thread without putting anything.
NoInfo_Silent ==
    /\ wpc = "noinfo"
    /\ wpc' = "exited"
    /\ UNCHANGED <<q, enq, yielded, gpc, item, joined, hooks, exc, transVars, restVars>>

\* if not info: q.put({'status': 'error', 'error': 'No info returned'}); return
NoInfo ==
    /\ wpc = "noinfo"
    /\ Put(Error("No info returned"))
    /\ wpc' = "finally"
    /\ UNCHANGED <<yielded, gpc, item, joined, hooks, exc, transVars, restVars>>

\* Lines 177-200: the filename, thumbnail and duration are computed (any of
\* which may raise) and then the 'finished' event is put.
PostRaises(msg) ==
    /\ wpc = "post"
    /\ wpc' = "except"
    /\ exc' = msg
    /\ UNCHANGED <<q, enq, yielded, gpc, item, joined, hooks, transVars, restVars>>

PutFinished ==
    /\ wpc = "post"
    /\ Put(Finished)
    /\ wpc' = "finally"
    /\ UNCHANGED <<yielded, gpc, item, joined, hooks, exc, transVars, restVars>>

\* Mutant of ExceptClause: the exception is swallowed (except: pass).
ExceptClause_Swallow ==
    /\ wpc = "except"
    /\ wpc' = "finally"
    /\ UNCHANGED <<q, enq, yielded, gpc, item, joined, hooks, exc, transVars, restVars>>

\* Mutant of ExceptClause: the event carries a fixed text instead of str(e).
ExceptClause_Generic ==
    /\ wpc = "except"
    /\ Put(Error("Download failed"))
    /\ wpc' = "finally"
    /\ UNCHANGED <<yielded, gpc, item, joined, hooks, exc, transVars, restVars>>

\* except Exception as e: q.put({'status': 'error', 'error': str(e)})
ExceptClause ==
    /\ wpc = "except"
    /\ Put(Error(exc))
    /\ wpc' = "finally"
    /\ UNCHANGED <<yielded, gpc, item, joined, hooks, exc, transVars, restVars>>

\* finally: q.put(None); the thread's target returns.
FinallyClause ==
    /\ wpc = "finally"
    /\ Put(None)
    /\ wpc' = "exited"
    /\ UNCHANGED <<yielded, gpc, item, joined, hooks, exc, transVars, restVars>>

\* run_download, one step of the worker thread
run_download ==
    \/ \E st \in {"downloading", "finished", "error"} : ProgressHook(st)
    \/ \E msg \in ExcMsgs : ExtractRaises(msg)
    \/ \E info \in {"none", "ok"} : ExtractReturns(info)
    \/ NoInfo
    \/ \E msg \in ExcMsgs : PostRaises(msg)
    \/ PutFinished
    \/ ExceptClause
    \/ FinallyClause

\* The caller's first next(): the generator body runs to its first q.get():
\* q = queue.Queue(); t = threading.Thread(target=run_download); t.start()
GenStart ==
    /\ gpc = "created"
    /\ gpc' = "get"
    /\ wpc' = "extract"
    /\ UNCHANGED <<q, enq, yielded, item, joined, hooks, exc, transVars, restVars>>

\* Mutant of GenGet: the channel is a LifoQueue (the newest item is taken).
GenGet_Lifo ==
    /\ gpc = "get"
    /\ q # <<>>
    /\ item' = q[Len(q)]
    /\ q' = SubSeq(q, 1, Len(q) - 1)
    /\ IF q[Len(q)] = None
       THEN /\ gpc' = "join"
            /\ UNCHANGED yielded
       ELSE /\ gpc' = "yield"
            /\ yielded' = Append(yielded, q[Len(q)])
    /\ UNCHANGED <<enq, wpc, joined, hooks, exc, transVars, restVars>>

\* item = q.get(); if item is None: break; yield item
GenGet ==
    /\ gpc = "get"
    /\ q # <<>>
    /\ item' = Head(q)
    /\ q' = Tail(q)
    /\ IF Head(q) = None
       THEN /\ gpc' = "join"
            /\ UNCHANGED yielded
       ELSE /\ gpc' = "yield"
            /\ yielded' = Append(yielded, Head(q))
    /\ UNCHANGED <<enq, wpc, joined, hooks, exc, transVars, restVars>>

\* The caller's next() on the suspended generator:
\* if item.get('status') in ['finished', 'error']: break  -- else loop
GenResume ==
    /\ gpc = "yield"
    /\ gpc' = IF IsTerminal(item) THEN "join" ELSE "get"
    /\ UNCHANGED <<q, enq, yielded, wpc, item, joined, hooks, exc, transVars, restVars>>

\* t.join() returns once the worker has exited; the generator then returns.
GenJoin ==
    /\ gpc = "join"
    /\ wpc = "exited"
    /\ joined' = TRUE
    /\ gpc' = "returned"
    /\ UNCHANGED <<q, enq, yielded, wpc, item, hooks, exc, transVars, restVars>>

\* The caller stops iterating and the suspended generator is closed (close(),
\* or garbage collection): GeneratorExit is raised at the yield and, with no
\* try/finally around it, the generator ends without reaching t.join().
GenClose ==
    /\ gpc = "yield"
    /\ gpc' = "closed"
    /\ UNCHANGED <<q, enq, yielded, wpc, item, joined, hooks, exc, transVars, restVars>>

\* download_media_generator, one step of the consumer side
download_media_generator ==
    \/ GenStart
    \/ GenGet
    \/ GenResume
    \/ GenJoin

TransIdle ==
    /\ segments = <<>>
    /\ tpc = "idle"
    /\ batch_idx = 0
    /\ i = 0
    /\ has_cb = FALSE
    /\ tlog = <<>>
    /\ raised = <<>>
    /\ segments0 = <<>>

BridgeInit ==
    /\ q = <<>>
    /\ enq = <<>>
    /\ yielded = <<>>
    /\ wpc = "unstarted"
    /\ gpc = "created"
    /\ item = None
    /\ joined = FALSE
    /\ hooks = 0
    /\ exc = ""
    /\ TransIdle
    /\ RestIdle

BridgeNext ==
    \/ run_download
    \/ download_media_generator
    \/ GenClose

BridgeSpec == BridgeInit /\ [][BridgeNext]_vars

\* The scheduler runs the worker thread and the generator's own steps; the
\* caller keeps iterating (event_generator's for loop).
BridgeFairSpec ==
    /\ BridgeSpec
    /\ WF_vars(run_download)
    /\ WF_vars(download_media_generator)

(***************************************************************************)
(* Batch Translation Engine: core/translator_gemini.py,                    *)
(* translate_segments_with_gemini                                          *)
(***************************************************************************)
BATCH_SIZE == 30
MaxSegments == 65    \* longest segment list handed to the function

Min(a, b) == IF a <= b THEN a ELSE b

\* The value of a segment's 'translated' key.  NoField: the key is absent.
NoField  == [kind |-> "absent", val |-> 0, msg |-> <<>>]
Text(v)  == [kind |-> "text", val |-> v, msg |-> <<>>]
\* "[Translation Error]"
MissingMarker == [kind |-> "[Translation Error]", val |-> 0, msg |-> <<>>]
\* f"[Translation Failed: {str(e)}]"
FailedMarker(msg) == [kind |-> "[Translation Failed: ]", val |-> 0, msg |-> msg]

\* The segments transcribe_audio returns: ids 1..n in order, no 'translated'.
Transcribed(n) ==
    [k \in 1..n |-> [id |-> k, start |-> k - 1, end |-> k, text |-> k,
                     translated |-> NoField]]

\* Python's seq[lo:hi] (0-based, hi exclusive, clamped to the length)
Slice(seq, lo, hi) == SubSeq(seq, lo + 1, Min(hi, Len(seq)))

\* str(e) of the failures of model.generate_content / response.text
QuotaMsg    == <<"q", "u", "o", "t", "a">>
LowerKeyMsg == <<"b", "a", "d", " ", "a", "p", "i", "_", "k", "e", "y">>
UpperKeyMsg == <<"A", "P", "I", "_", "K", "E", "Y", "_", "I", "N", "V", "A", "L", "I", "D">>
SpacedKeyMsg == <<"A", "P", "I", " ", "k", "e", "y">>
CallMsgs == {QuotaMsg, LowerKeyMsg, UpperKeyMsg, SpacedKeyMsg}
\* str(e) of json.loads failing on the response text
ParseMsg == <<"E", "x", "p", "e", "c", "t", "i", "n", "g">>

\* What the collaborator's translation of the text of segment `id` is
Tr(id) == Text(100 + id)

Reverse(seq) == [n \in 1..Len(seq) |-> seq[Len(seq) + 1 - n]]

\* The parsed response (json.loads(response_text)) for a batch, by shape
ResponseShapes == {"all", "reversed", "dropFirst", "empty", "foreign"}
Response(shape, batch) ==
    LET items == [n \in 1..Len(batch) |->
                     [id |-> batch[n].id, translated |-> Tr(batch[n].id)]]
    IN  CASE shape = "all"       -> items
          [] shape = "reversed"  -> Reverse(items)
          [] shape = "dropFirst" -> Tail(items)
          [] shape = "empty"     -> <<>>
          [] shape = "foreign"   ->
                 [n \in 1..Len(items) |->
                     [id |-> 1000 + items[n].id, translated |-> items[n].translated]]

\* trans_map = {item["id"]: item.get("translated", "") for item in translated_batch}
TransMap(translated_batch) ==
    LET ids == {translated_batch[n].id : n \in 1..Len(translated_batch)}
        last(k) == CHOOSE n \in 1..Len(translated_batch) :
                       /\ translated_batch[n].id = k
                       /\ \A m \in (n + 1)..Len(translated_batch) :
                              translated_batch[m].id # k
    IN  [k \in ids |-> translated_batch[last(k)].translated]

\* Mutant of Merge: no fallback, a segment whose id is missing is skipped.
Merge_NoFallback(segs, lo, hi, trans_map) ==
    [k \in 1..Len(segs) |->
        IF lo < k /\ k <= Min(hi, Len(segs)) /\ segs[k].id \in DOMAIN trans_map
        THEN [segs[k] EXCEPT !.translated = trans_map[segs[k].id]]
        ELSE segs[k]]

\* Mutant of Merge: a response that misses an id is discarded as a whole.
Merge_AllOrNothing(segs, lo, hi, trans_map) ==
    [k \in 1..Len(segs) |->
        IF lo < k /\ k <= Min(hi, Len(segs))
        THEN [segs[k] EXCEPT !.translated =
                 IF \A n \in (lo + 1)..Min(hi, Len(segs)) :
                        segs[n].id \in DOMAIN trans_map
                 THEN trans_map[segs[k].id]
                 ELSE MissingMarker]
        ELSE segs[k]]

\* for seg in batch: seg["translated"] = trans_map[seg_id] or the fallback
\* (batch holds the dicts of segments[lo:hi], so the list itself changes)
Merge(segs, lo, hi, trans_map) ==
    [k \in 1..Len(segs) |->
        IF lo < k /\ k <= Min(hi, Len(segs))
        THEN [segs[k] EXCEPT !.translated =
                 IF segs[k].id \in DOMAIN trans_map
                 THEN trans_map[segs[k].id]
                 ELSE MissingMarker]
        ELSE segs[k]]

\* Mutant of MarkFailed: the last segment of the batch is left as it was.
MarkFailed_SkipLast(segs, lo, hi, msg) ==
    [k \in 1..Len(segs) |->
        IF lo < k /\ k < Min(hi, Len(segs))
        THEN [segs[k] EXCEPT !.translated = FailedMarker(msg)]
        ELSE segs[k]]

\* Mutant of MarkFailed: only the first segment of the batch is marked.
MarkFailed_FirstOnly(segs, lo, hi, msg) ==
    [k \in 1..Len(segs) |->
        IF k = lo + 1
        THEN [segs[k] EXCEPT !.translated = FailedMarker(msg)]
        ELSE segs[k]]

\* Mutant of MarkFailed: the marker overwrites the segment's text as well.
MarkFailed_Text(segs, lo, hi, msg) ==
    [k \in 1..Len(segs) |->
        IF lo < k /\ k <= Min(hi, Len(segs))
        THEN [segs[k] EXCEPT !.translated = FailedMarker(msg), !.text = 0]
        ELSE segs[k]]

\* for seg in batch: seg["translated"] = f"[Translation Failed: {str(e)}]"
MarkFailed(segs, lo, hi, msg) ==
    [k \in 1..Len(segs) |->
        IF lo < k /\ k <= Min(hi, Len(segs))
        THEN [segs[k] EXCEPT !.translated = FailedMarker(msg)]
        ELSE segs[k]]

\* Mutant of IsFatal: the test is made without .upper().
IsFatal_CaseSensitive(msg) == Contains(msg, API_KEY)

\* if "API_KEY" in str(e).upper()
IsFatal(msg) == Contains(Upper(msg), API_KEY)

total_segments == Len(segments)

\* total_batches = (total_segments + BATCH_SIZE - 1) // BATCH_SIZE
total_batches == (total_segments + BATCH_SIZE - 1) \div BATCH_SIZE

\* Mutant of LoopStep: the stride is one short, so batches overlap.
LoopStep_Short == BATCH_SIZE - 1

\* range(0, total_segments, BATCH_SIZE): the stride
LoopStep == BATCH_SIZE

LogEntry(ev, idx, total, lo, hi, msg) ==
    [ev |-> ev, idx |-> idx, total |-> total, lo |-> lo, hi |-> hi, msg |-> msg]

\* Mutant of CallbackLog: the index reported is 1-based.
CallbackLog_OneBased ==
    IF has_cb
    THEN <<LogEntry("progress", batch_idx + 1, total_batches, 0, 0, <<>>)>>
    ELSE <<>>

\* if progress_callback: progress_callback(batch_idx, total_batches)
CallbackLog ==
    IF has_cb
    THEN <<LogEntry("progress", batch_idx, total_batches, 0, 0, <<>>)>>
    ELSE <<>>

\* response = model.generate_content(prompt) for batch = segments[i : i + BATCH_SIZE]
CallLog ==
    <<LogEntry("call", batch_idx, 0, i,
               i + Len(Slice(segments, i, i + BATCH_SIZE)), <<>>)>>

\* if not api_key: raise ValueError(...); genai.configure; the totals
KeyRequiredMsg == <<"k", "e", "y", " ", "r", "e", "q", "u", "i", "r", "e", "d">>
TranslateEnter(api_key) ==
    /\ tpc = "idle"
    /\ IF api_key
       THEN tpc' = "loop" /\ raised' = raised
       ELSE tpc' = "raised" /\ raised' = KeyRequiredMsg
    /\ UNCHANGED <<segments, segments0, batch_idx, i, has_cb, tlog, bridgeVars, restVars>>

\* One iteration whose try block runs to its end: callback, call, parse,
\* merge by id, time.sleep(1).
BatchOk(shape) ==
    /\ tpc = "loop"
    /\ i < total_segments
    /\ segments' = Merge(segments, i, i + BATCH_SIZE,
                         TransMap(Response(shape, Slice(segments, i, i + BATCH_SIZE))))
    /\ tlog' = tlog \o CallbackLog \o CallLog
                    \o <<LogEntry("ok", batch_idx, 0, 0, 0, <<shape>>),
                         LogEntry("sleep", batch_idx, 0, 0, 0, <<>>)>>
    /\ batch_idx' = batch_idx + 1
    /\ i' = i + LoopStep
    /\ UNCHANGED <<tpc, has_cb, raised, segments0, bridgeVars, restVars>>

\* One iteration whose try block raises (the call, response.text, json.loads
\* or the building of trans_map): the except clause marks the whole batch and
\* re-raises when the text of the failure holds API_KEY.
BatchFails(msg) ==
    /\ tpc = "loop"
    /\ i < total_segments
    /\ segments' = MarkFailed(segments, i, i + BATCH_SIZE, msg)
    /\ tlog' = tlog \o CallbackLog \o CallLog
                    \o <<LogEntry("fail", batch_idx, 0, 0, 0, msg)>>
    /\ IF IsFatal(msg)
       THEN /\ tpc' = "raised"
            /\ raised' = msg
            /\ UNCHANGED <<batch_idx, i>>
       ELSE /\ batch_idx' = batch_idx + 1
            /\ i' = i + LoopStep
            /\ UNCHANGED <<tpc, raised>>
    /\ UNCHANGED <<has_cb, segments0, bridgeVars, restVars>>

\* The range is exhausted: the function returns None.
TranslateReturn ==
    /\ tpc = "loop"
    /\ i >= total_segments
    /\ tpc' = "returned"
    /\ UNCHANGED <<segments, segments0, batch_idx, i, has_cb, tlog, raised, bridgeVars, restVars>>

BridgeIdle ==
    /\ q = <<>>
    /\ enq = <<>>
    /\ yielded = <<>>
    /\ wpc = "unstarted"
    /\ gpc = "created"
    /\ item = None
    /\ joined = FALSE
    /\ hooks = 0
    /\ exc = ""

TranslateInit ==
    /\ \E n \in 0..MaxSegments : segments = Transcribed(n)
    /\ segments0 = segments
    /\ has_cb \in BOOLEAN
    /\ tpc = "idle"
    /\ batch_idx = 0
    /\ i = 0
    /\ tlog = <<>>
    /\ raised = <<>>
    /\ BridgeIdle
    /\ RestIdle

translate_segments_with_gemini ==
    \/ \E api_key \in BOOLEAN : TranslateEnter(api_key)
    \/ \E shape \in ResponseShapes : BatchOk(shape)
    \/ \E msg \in CallMsgs \cup {ParseMsg} : BatchFails(msg)
    \/ TranslateReturn

TranslateNext == translate_segments_with_gemini

TranslateSpec == TranslateInit /\ [][TranslateNext]_vars

(***************************************************************************)
(* Pipeline Orchestrator: gui/main_window.py, WorkerThread.run, and        *)
(* backend_api.py, process_video.  One run; disk is the set of artifacts   *)
(* the run has created, plog the stages it has started and its terminal    *)
(* state, outcomes what the caller has been told (finished / error signal, *)
(* ok = true / ok = false).                                                *)
(***************************************************************************)
MaxPipeSegments == 31    \* longest transcription of a run (two batches)

runInputs == <<mode, enable_translation, has_key>>
pipeOther == <<bridgeVars, addrVars, estVars, fmtVars, extraVars>>

\* Mutant of Progress: the fraction is not clamped.
Progress_NoClamp(current, dur) == <<current, dur>>

\* progress = min(1.0, current_seconds / self.duration)
Progress(current, dur) ==
    IF current >= dur THEN <<1, 1>> ELSE <<current, dur>>

\* self.progress_value.emit(p), while the run is at the stage `at'
Emit(at, p) == [at |-> at, p |-> p]

\* Mutant of on_transcribe_progress: the fraction is scaled to 0..100.
on_transcribe_progress_Percent(f) ==
    {10 + (f[1] * 100) \div f[2]}

\* p = 10 + int(progress_float * 70), progress_float = the binary64 quotient
\* f[1] / f[2] (milliseconds).  The product is rounded twice; when the exact
\* value 70 * f[1] / f[2] is an integer the rounded one can fall just below
\* it, and int() then gives one less.  The set holds every value the
\* arithmetic can give.
on_transcribe_progress(f) ==
    LET v == (f[1] * 70) \div f[2]
    IN  IF (f[1] * 70) % f[2] = 0 /\ 0 < f[1] /\ f[1] < f[2]
        THEN {10 + v - 1, 10 + v}
        ELSE {10 + v}

\* if total > 0: p = 85 + int((current / total) * 10)
on_trans_progress(current, total) ==
    IF total > 0 THEN <<Emit("translation", 85 + (current * 10) \div total)>>
    ELSE <<>>

\* What transcribe_audio passes to the callback during one transcription of
\* a medium of d milliseconds: min(1.0, elapsed / d) for up to two chunks.
Elapsed == {0, 700, 2500, 9000}
GuiDurations == {0, 5000, 7000}
TranscribeCalls(d) ==
    IF d > 0
    THEN {<<>>} \cup {<<Progress(e, d)>> : e \in Elapsed}
         \cup {<<Progress(e1, d), Progress(e2, d)>> : e1 \in Elapsed, e2 \in Elapsed}
    ELSE {<<>>}

\* The percentages a sequence of callback invocations emits (one choice each)
RECURSIVE TranscribeEmits(_)
TranscribeEmits(calls) ==
    IF calls = <<>> THEN {<<>>}
    ELSE {<<Emit("transcription", p)>> \o rest :
             p \in on_transcribe_progress(Head(calls)),
             rest \in TranscribeEmits(Tail(calls))}

\* Mutant of GuiExcept: the finished signal is emitted after the error.
GuiExcept_AlsoFinished(log, stage, d) ==
    /\ ppc' = "failed"
    /\ plog' = Append(log, "failed")
    /\ disk' = d
    /\ outcomes' = outcomes \o <<"error", "success">>
    /\ failed_at' = stage
    /\ collab_failed' = TRUE

\* Mutant of GuiExcept: the handler removes what the run has written.
GuiExcept_Rollback(log, stage, d) ==
    /\ ppc' = "failed"
    /\ plog' = Append(log, "failed")
    /\ disk' = {}
    /\ outcomes' = Append(outcomes, "error")
    /\ failed_at' = stage
    /\ collab_failed' = TRUE

\* except Exception as e: self.error.emit(str(e)) -- run() ends.  log is the
\* stage log and d the disk as the failing statement left them.
GuiExcept(log, stage, d) ==
    /\ ppc' = "failed"
    /\ plog' = Append(log, "failed")
    /\ disk' = d
    /\ outcomes' = Append(outcomes, "error")
    /\ failed_at' = stage
    /\ collab_failed' = TRUE

\* progress_value.emit(100); finished.emit() -- run() ends.
GuiFinish(log, d, em) ==
    /\ ppc' = "done"
    /\ emitted' = Append(em, Emit("done", 100))
    /\ plog' = Append(log, "done")
    /\ disk' = d
    /\ outcomes' = Append(outcomes, "success")
    /\ UNCHANGED <<failed_at, collab_failed>>

\* download_audio(url, output_dir): returns (path, duration) or raises; the
\* file may already be there when it raises (float(duration) after the
\* download).
GuiDownload ==
    /\ mode = "gui"
    /\ ppc = "start"
    /\ \E ok \in BOOLEAN, left \in BOOLEAN :
          IF ok
          THEN /\ ppc' = "transcribe"
               /\ plog' = Append(plog, "media")
               /\ disk' = disk \cup {"media"}
               /\ emitted' = emitted \o <<Emit("start", 0), Emit("media", 10)>>
               /\ UNCHANGED <<outcomes, failed_at, collab_failed>>
          ELSE /\ GuiExcept(Append(plog, "media"), "media",
                            IF left THEN disk \cup {"media"} ELSE disk)
               /\ emitted' = Append(emitted, Emit("start", 0))
    /\ UNCHANGED <<runInputs, transVars, pipeOther>>

\* segments = transcribe_audio(...): n segments with ids 1..n, or raises.
GuiTranscribe ==
    /\ mode = "gui"
    /\ ppc = "transcribe"
    /\ \E d \in GuiDurations : \E calls \in TranscribeCalls(d) :
       \E em \in TranscribeEmits(calls) :
          \/ \E n \in {0, 1, BATCH_SIZE, MaxPipeSegments} :
                /\ segments' = Transcribed(n)
                /\ ppc' = "save_original"
                /\ plog' = Append(plog, "transcription")
                /\ emitted' = emitted \o em \o <<Emit("transcription", 80)>>
                /\ UNCHANGED <<disk, outcomes, failed_at, collab_failed>>
          \/ /\ GuiExcept(Append(plog, "transcription"), "transcription", disk)
             /\ emitted' = emitted \o em
             /\ UNCHANGED segments
    /\ UNCHANGED <<runInputs, segments0, tpc, batch_idx, i, has_cb, tlog, raised,
                   pipeOther>>

\* if self.config.enable_translation: if not self.config.gemini_api_key: skip
\* (process_video: if req.enable_translation and req.gemini_api_key)
TranslationWanted == enable_translation /\ has_key

\* write_srt(segments, "{video_id}_original.srt", field="text"), then either
\* the translation is skipped and run() finishes, or the engine is called.
\* write_srt fails in open() (no file) or while writing (the file is there).
GuiSaveOriginal ==
    /\ mode = "gui"
    /\ ppc = "save_original"
    /\ LET log == Append(plog, "persist_original")
       IN  \/ /\ ~TranslationWanted
              /\ GuiFinish(log, disk \cup {"original"},
                           Append(emitted, Emit("persist_original", 85)))
              /\ UNCHANGED transVars
           \/ /\ TranslationWanted
              /\ ppc' = "translating"
              /\ plog' = Append(log, "translation")
              /\ disk' = disk \cup {"original"}
              /\ tpc' = "idle"
              /\ has_cb' = TRUE
              /\ segments0' = segments
              /\ emitted' = Append(emitted, Emit("persist_original", 85))
              /\ UNCHANGED <<outcomes, failed_at, collab_failed, segments,
                             batch_idx, i, tlog, raised>>
           \/ /\ \E created \in BOOLEAN :
                    GuiExcept(log, "persist_original",
                              IF created THEN disk \cup {"original"} ELSE disk)
              /\ UNCHANGED <<emitted, transVars>>
    /\ UNCHANGED <<runInputs, pipeOther>>

\* Mutant of GuiTranslate: the engine is entered before the original is saved.
GuiTranslate_BeforeSave ==
    /\ mode = "gui"
    /\ ppc = "save_original"
    /\ ppc' = "translating"
    /\ plog' = Append(plog, "translation")
    /\ tpc' = "loop"
    /\ has_cb' = TRUE
    /\ segments0' = segments
    /\ UNCHANGED <<disk, outcomes, failed_at, collab_failed, segments, emitted,
                   batch_idx, i, tlog, raised, runInputs, pipeOther>>

\* translate_segments_with_gemini(segments, target_lang, gemini_api_key, ...,
\* progress_callback=on_trans_progress): the call, with the non-empty key.
GuiTranslate ==
    /\ mode = "gui"
    /\ ppc = "translating"
    /\ TranslateEnter(TRUE)

\* The engine raised (credential failure): the except clause of run().
GuiTranslateRaised ==
    /\ mode = "gui"
    /\ ppc = "translating"
    /\ tpc = "raised"
    /\ GuiExcept(plog, "translation", disk)
    /\ UNCHANGED <<emitted, runInputs, transVars, pipeOther>>

\* The engine returned: write_srt(segments, "{video_id}_{target_lang}.srt",
\* field="translated") and run() finishes.
GuiSaveTranslated ==
    /\ mode = "gui"
    /\ ppc = "translating"
    /\ tpc = "returned"
    /\ LET log == Append(plog, "persist_translated")
       IN  \/ GuiFinish(log, disk \cup {"translated"}, emitted)
           \/ /\ \E created \in BOOLEAN :
                    GuiExcept(log, "persist_translated",
                              IF created THEN disk \cup {"translated"} ELSE disk)
              /\ UNCHANGED emitted
    /\ UNCHANGED <<runInputs, transVars, pipeOther>>

\* except Exception as e: return ProcessResponse(ok=False, error=str(e)).
\* collab: the exception came from a collaborator.
HttpExcept(log, stage, d, collab) ==
    /\ ppc' = "failed"
    /\ plog' = Append(log, "failed")
    /\ disk' = d
    /\ outcomes' = Append(outcomes, "error")
    /\ failed_at' = stage
    /\ collab_failed' = collab
    /\ UNCHANGED emitted

\* load_config(); meta = fetch_video_metadata(req.url); get_video_id
HttpMetadata ==
    /\ mode = "http"
    /\ ppc = "start"
    /\ \E ok \in BOOLEAN :
          IF ok
          THEN /\ ppc' = "save_metadata"
               /\ plog' = Append(plog, "metadata")
               /\ UNCHANGED <<disk, outcomes, failed_at, collab_failed, emitted>>
          ELSE HttpExcept(Append(plog, "metadata"), "metadata", disk, TRUE)
    /\ UNCHANGED <<runInputs, transVars, pipeOther>>

\* os.makedirs; open(metadata_path, "w"); json.dump({... "timestamp":
\* str(datetime.datetime.now())}): the module never imports datetime, so
\* building the dict raises NameError once the file has been opened.  The
\* statements after it (download_audio ... return ProcessResponse(ok=True))
\* are never reached.
HttpSaveMetadata ==
    /\ mode = "http"
    /\ ppc = "save_metadata"
    /\ \/ HttpExcept(plog, "metadata", disk, TRUE)                \* makedirs
       \/ HttpExcept(plog, "metadata", disk \cup {"folder"}, TRUE) \* open
       \/ HttpExcept(plog, "metadata",                             \* NameError
                     disk \cup {"folder", "metadata_json"}, FALSE)
    /\ UNCHANGED <<runInputs, transVars, pipeOther>>

PipelineInit ==
    /\ mode \in {"gui", "http"}
    /\ enable_translation \in BOOLEAN
    /\ has_key \in BOOLEAN
    /\ ppc = "start"
    /\ emitted = <<>>
    /\ plog = <<>>
    /\ disk = {}
    /\ outcomes = <<>>
    /\ collab_failed = FALSE
    /\ failed_at = ""
    /\ segments = <<>>
    /\ segments0 = <<>>
    /\ tpc = "uncalled"
    /\ batch_idx = 0
    /\ i = 0
    /\ has_cb = FALSE
    /\ tlog = <<>>
    /\ raised = <<>>
    /\ BridgeIdle
    /\ AddrIdle
    /\ EstIdle
    /\ FmtIdle
    /\ ExtraIdle

\* The batches of the engine run while run() waits inside the call.
GuiTranslateLoop ==
    /\ ppc = "translating"
    /\ \/ \E shape \in ResponseShapes : BatchOk(shape)
       \/ \E msg \in CallMsgs \cup {ParseMsg} : BatchFails(msg)
       \/ TranslateReturn

WorkerThread_run ==
    \/ GuiDownload
    \/ GuiTranscribe
    \/ GuiSaveOriginal
    \/ GuiTranslate
    \/ GuiTranslateLoop
    \/ GuiTranslateRaised
    \/ GuiSaveTranslated

process_video ==
    \/ HttpMetadata
    \/ HttpSaveMetadata

PipelineNext ==
    \/ WorkerThread_run
    \/ process_video

PipelineSpec == PipelineInit /\ [][PipelineNext]_vars

(***************************************************************************)
(* Output Addressing Scheme: the file names the orchestrators write        *)
(* (gui/main_window.py, backend_api.py process_video) and the reverse      *)
(* parsing of backend_api.py list_outputs.  Names are sequences of         *)
(* one-character strings.                                                  *)
(***************************************************************************)
MaxFiles == 4        \* files in the output directory before the last run

UpperAlphabet == <<"A", "B", "C", "D", "E", "F", "G", "H", "I", "J", "K", "L", "M", "N", "O", "P", "Q", "R", "S", "T", "U", "V", "W", "X", "Y", "Z">>
LowerAlphabet == <<"a", "b", "c", "d", "e", "f", "g", "h", "i", "j", "k", "l", "m", "n", "o", "p", "q", "r", "s", "t", "u", "v", "w", "x", "y", "z">>

\* str.lower()
Lower(s) ==
    [n \in 1..Len(s) |->
        IF \E k \in 1..26 : UpperAlphabet[k] = s[n]
        THEN LowerAlphabet[CHOOSE k \in 1..26 : UpperAlphabet[k] = s[n]]
        ELSE s[n]]

\* os.path.splitext(f) for a basename: split before the last dot, unless
\* only dots precede it
SplitExt(f) ==
    LET dots == {n \in 1..Len(f) : f[n] = "."}
        dotIndex == CHOOSE n \in dots : \A m \in dots : m <= n
    IN  IF dots # {} /\ \E m \in 1..(dotIndex - 1) : f[m] # "."
        THEN <<SubSeq(f, 1, dotIndex - 1), SubSeq(f, dotIndex, Len(f))>>
        ELSE <<f, <<>>>>

\* s.endswith(suffix)
EndsWith(s, suffix) ==
    /\ Len(suffix) <= Len(s)
    /\ SubSeq(s, Len(s) - Len(suffix) + 1, Len(s)) = suffix

\* s.replace(old, new), old not empty: every occurrence, left to right
RECURSIVE Replace(_, _, _)
Replace(s, old, new) ==
    IF Len(s) < Len(old) THEN s
    ELSE IF SubSeq(s, 1, Len(old)) = old
         THEN new \o Replace(SubSeq(s, Len(old) + 1, Len(s)), old, new)
         ELSE <<s[1]>> \o Replace(Tail(s), old, new)

\* Mutant of Split: the string is split at its first separator only.
Split_Once(s, c) ==
    LET at == {n \in 1..Len(s) : s[n] = c}
        first == CHOOSE n \in at : \A m \in at : n <= m
    IN  IF at = {} THEN <<s>>
        ELSE <<SubSeq(s, 1, first - 1), SubSeq(s, first + 1, Len(s))>>

\* s.split(c)
RECURSIVE Split(_, _)
Split(s, c) ==
    LET at == {n \in 1..Len(s) : s[n] = c}
        first == CHOOSE n \in at : \A m \in at : n <= m
    IN  IF at = {} THEN <<s>>
        ELSE <<SubSeq(s, 1, first - 1)>> \o Split(SubSeq(s, first + 1, Len(s)), c)

\* c.join(parts)
RECURSIVE Join(_, _)
Join(parts, c) ==
    IF Len(parts) = 0 THEN <<>>
    ELSE IF Len(parts) = 1 THEN parts[1]
    ELSE parts[1] \o <<c>> \o Join(Tail(parts), c)

Original == <<"o", "r", "i", "g", "i", "n", "a", "l">>
UnderscoreOriginal == <<"_", "o", "r", "i", "g", "i", "n", "a", "l">>
Srt == <<".", "s", "r", "t">>
M4a == <<".", "m", "4", "a">>
Unknown == <<"u", "n", "k", "n", "o", "w", "n">>
\* lang = None
NoLang == <<"None">>

\* The extensions list_outputs looks at
ListedExts == {<<".", "m", "p", "3">>, M4a, <<".", "w", "a", "v">>, Srt}

\* str(out_path / "%(id)s.%(ext)s") with the preferred m4a format
AudioName(video_id) == video_id \o M4a
\* f"{video_id}_original.srt"
OriginalName(video_id) == video_id \o UnderscoreOriginal \o Srt
\* f"{video_id}_{target_lang}.srt"
TranslatedName(video_id, target_lang) == video_id \o <<"_">> \o target_lang \o Srt

OutputFile(f, video_id, ftype, lang) ==
    [filename |-> f, video_id |-> video_id, type |-> ftype, lang |-> lang]

\* Mutant of ParseName: a transcript is never recognised by its _original
\* suffix.
ParseName_NoOriginal(f, name, ext) ==
    IF Lower(ext) = Srt
    THEN LET parts == Split(name, "_")
         IN  IF Len(parts) > 1
             THEN OutputFile(f, Join(SubSeq(parts, 1, Len(parts) - 1), "_"),
                             "srt_translated", parts[Len(parts)])
             ELSE OutputFile(f, Unknown, "srt_original", NoLang)
    ELSE OutputFile(f, name, "audio", NoLang)

\* The "simple parsing based on suffix" of one listed file
ParseName(f, name, ext) ==
    IF Lower(ext) = Srt
    THEN IF EndsWith(name, UnderscoreOriginal)
         THEN OutputFile(f, Replace(name, UnderscoreOriginal, <<>>),
                         "srt_original", NoLang)
         ELSE LET parts == Split(name, "_")
              IN  IF Len(parts) > 1
                  THEN OutputFile(f, Join(SubSeq(parts, 1, Len(parts) - 1), "_"),
                                  "srt_translated", parts[Len(parts)])
                  ELSE OutputFile(f, Unknown, "srt_original", NoLang)
    ELSE OutputFile(f, name, "audio", NoLang)

\* The video ids and target languages of the runs
ContentIds == {<<"a", "b", "c", "1", "2", "3">>, <<"d", "Q", "w", "4", "w", "9">>, <<"a", "_", "b">>, <<"x", "_", "o", "r", "i", "g", "i", "n", "a", "l", "_", "y">>}
Langs == {<<"z", "h", "-", "C", "N">>, <<"e", "n">>, <<"z", "h", "_", "C", "N">>, Original}

\* One run of an orchestrator writes the audio file, the original transcript
\* and, when it translates, the translated transcript, into the output
\* directory.
WriteOutputs ==
    /\ Cardinality(outdir) <= MaxFiles
    /\ \E video_id \in ContentIds, target_lang \in Langs, translate \in BOOLEAN :
          LET out == {OutputFile(AudioName(video_id), video_id, "audio", NoLang),
                      OutputFile(OriginalName(video_id), video_id,
                                 "srt_original", NoLang)}
                     \cup (IF translate
                           THEN {OutputFile(TranslatedName(video_id, target_lang),
                                            video_id, "srt_translated", target_lang)}
                           ELSE {})
          IN  /\ outdir' = outdir \cup {o.filename : o \in out}
              /\ written' = written \cup out
    /\ UNCHANGED <<listed, bridgeVars, transVars, pipeVars, estVars, fmtVars, extraVars>>

\* GET /api/outputs: every file with a listed extension is parsed.
list_outputs ==
    /\ listed' = {ParseName(f, SplitExt(f)[1], SplitExt(f)[2]) :
                     f \in {g \in outdir : Lower(SplitExt(g)[2]) \in ListedExts}}
    /\ UNCHANGED <<outdir, written, bridgeVars, transVars, pipeVars, estVars, fmtVars, extraVars>>

\* Files in the output directory that no run wrote (the directory is the
\* user's; os.walk yields whatever it holds)
ForeignFiles == {<<"n", "o", "t", "e", "s", ".", "s", "r", "t">>, <<"M", "y", "_", "T", "a", "l", "k", ".", "M", "P", "3">>, <<"r", "e", "a", "d", "m", "e", ".", "t", "x", "t">>}
ForeignFile ==
    /\ Cardinality(outdir) <= MaxFiles
    /\ \E f \in ForeignFiles :
          /\ f \notin outdir
          /\ outdir' = outdir \cup {f}
    /\ UNCHANGED <<written, listed, bridgeVars, transVars, pipeVars, estVars, fmtVars, extraVars>>

AddressInit ==
    /\ AddrIdle
    /\ BridgeIdle
    /\ TransIdle
    /\ PipeIdle
    /\ EstIdle
    /\ FmtIdle
    /\ ExtraIdle

AddressNext ==
    \/ WriteOutputs
    \/ ForeignFile
    \/ list_outputs

AddressSpec == AddressInit /\ [][AddressNext]_vars

(***************************************************************************)
(* Stage Progress Estimator: core/transcriber.py, StdoutCapture and its    *)
(* use in transcribe_audio.  Times are whole milliseconds; a value passed  *)
(* to the callback is the fraction <<numerator, denominator>>.             *)
(***************************************************************************)
MaxWrites == 2       \* chunks written to stdout during one transcription

Digits == <<"0", "1", "2", "3", "4", "5", "6", "7", "8", "9">>
IsDigit(c) == \E d \in 1..10 : Digits[d] = c
\* int() of one digit
DigitVal(c) == (CHOOSE d \in 1..10 : Digits[d] = c) - 1
\* \s
IsSpace(c) == c \in {" ", "\t", "\n", "\r"}

NoMatch == [ok |-> FALSE, mm |-> 0, ss |-> 0, mmm |-> 0]

\* -->\s*(\d{2}):(\d{2})\.(\d{3})\] matched at position b of text: the groups
\* (\s* takes every space, since a digit must follow)
TokenAt(text, b) ==
    LET n == Len(text)
        ch(p) == IF p <= n THEN text[p] ELSE ""
        spaces == CHOOSE k \in 0..n :
                      /\ \A p \in (b + 3)..(b + 2 + k) : IsSpace(ch(p))
                      /\ ~IsSpace(ch(b + 3 + k))
        d == b + 3 + spaces
    IN  IF /\ ch(b) = "-" /\ ch(b + 1) = "-" /\ ch(b + 2) = ">"
           /\ IsDigit(ch(d)) /\ IsDigit(ch(d + 1)) /\ ch(d + 2) = ":"
           /\ IsDigit(ch(d + 3)) /\ IsDigit(ch(d + 4)) /\ ch(d + 5) = "."
           /\ IsDigit(ch(d + 6)) /\ IsDigit(ch(d + 7)) /\ IsDigit(ch(d + 8))
           /\ ch(d + 9) = "]"
        THEN [ok |-> TRUE,
              mm |-> 10 * DigitVal(ch(d)) + DigitVal(ch(d + 1)),
              ss |-> 10 * DigitVal(ch(d + 3)) + DigitVal(ch(d + 4)),
              mmm |-> 100 * DigitVal(ch(d + 6)) + 10 * DigitVal(ch(d + 7))
                         + DigitVal(ch(d + 8))]
        ELSE NoMatch

\* re.search(r"\[.*-->\s*(\d{2}):(\d{2})\.(\d{3})\]", text): the leftmost "["
\* from which the pattern matches; .* is greedy and stays on one line, so the
\* groups are those of the last arrow it can reach.
Match(text) ==
    LET arrows(a) == {b \in (a + 1)..Len(text) :
                         /\ \A p \in (a + 1)..(b - 1) : text[p] # "\n"
                         /\ TokenAt(text, b).ok}
        starts == {a \in 1..Len(text) : text[a] = "[" /\ arrows(a) # {}}
        a0 == CHOOSE a \in starts : \A x \in starts : a <= x
        b0 == CHOOSE b \in arrows(a0) : \A x \in arrows(a0) : x <= b
    IN  IF starts = {} THEN NoMatch ELSE TokenAt(text, b0)

\* StdoutCapture.write(text): the callback invocations it makes
Write(text) ==
    LET match == Match(text)
    IN  IF match.ok /\ duration > 0
        THEN IF est_cb
             THEN <<Progress((match.mm * 60 + match.ss) * 1000 + match.mmm,
                             duration)>>
             ELSE <<>>
        ELSE <<>>

\* The durations download_audio reports (info.get('duration', 0.0))
Durations == {-1000, 0, 5000, 100500, 3600000}

\* What is printed while the model transcribes
Chunks == {
    <<"[", "0", "0", ":", "0", "0", ".", "0", "0", "0", " ", "-", "-", ">", " ", "0", "0", ":", "0", "8", ".", "0", "0", "0", "]", " ", "H", "i">>,
    <<"[", "0", "0", ":", "0", "8", ".", "0", "0", "0", " ", "-", "-", ">", " ", "0", "1", ":", "4", "0", ".", "5", "0", "0", "]">>,
    <<"D", "e", "t", "e", "c", "t", "e", "d", " ", "l", "a", "n", "g", "u", "a", "g", "e", ":", " ", "e", "n">>,
    <<"-", "-", ">", " ", "0", "0", ":", "0", "5", ".", "0", "0", "0", "]">>,
    <<"[", "0", "1", ":", "0", "0", ":", "0", "0", ".", "0", "0", "0", " ", "-", "-", ">", " ", "0", "1", ":", "0", "0", ":", "0", "8", ".", "0", "0", "0", "]">>,
    <<"[", "a", " ", "-", "-", ">", " ", "0", "0", ":", "0", "1", ".", "0", "0", "0", "]", " ", "[", "b", " ", "-", "-", ">", " ", "0", "0", ":", "0", "2", ".", "0", "0", "0", "]">>,
    <<"[", "0", "0", ":", "0", "0", ".", "0", "0", "0", " ", "-", "-", ">", "0", "0", ":", "0", "3", ".", "0", "0", "0", "]">>,
    <<>>,
    <<"[", "\n", "-", "-", ">", " ", "0", "0", ":", "0", "4", ".", "0", "0", "0", "]">>,
    <<"[", "x", " ", "-", "-", ">", " ", " ", "9", "9", ":", "5", "9", ".", "9", "9", "9", "]">>,
    <<"[", "0", "0", ":", "0", "0", ".", "0", "0", "0", " ", "-", "-", ">", " ", "0", "0", ":", "0", "0", ".", "0", "0", "0", "]">>,
    <<"[", "0", "0", ":", "0", "1", ".", "0", "0", "0", " ", "-", "-", ">", " ", "0", ":", "0", "2", ".", "0", "0", "0", "]">> }

\* if progress_callback and duration > 0: with StdoutCapture(...) -- else the
\* plain call, where sys.stdout stays what it was
EnterTranscribe ==
    /\ epc = "idle"
    /\ epc' = IF est_cb /\ duration > 0 THEN "capturing" ELSE "plain"
    /\ UNCHANGED <<duration, est_cb, chunks, est_calls, bridgeVars, transVars,
                   pipeVars, addrVars, fmtVars, extraVars>>

\* model.transcribe prints a chunk: sys.stdout.write(text)
WhisperPrints ==
    /\ epc \in {"capturing", "plain"}
    /\ Len(chunks) < MaxWrites
    /\ \E text \in Chunks :
          /\ chunks' = Append(chunks, text)
          /\ est_calls' = IF epc = "capturing"
                          THEN est_calls \o Write(text)
                          ELSE est_calls
    /\ UNCHANGED <<duration, est_cb, epc, bridgeVars, transVars, pipeVars,
                   addrVars, fmtVars, extraVars>>

\* model.transcribe returns or raises: __exit__ restores sys.stdout
ExitTranscribe ==
    /\ epc \in {"capturing", "plain"}
    /\ epc' = "exited"
    /\ UNCHANGED <<duration, est_cb, chunks, est_calls, bridgeVars, transVars,
                   pipeVars, addrVars, fmtVars, extraVars>>

EstimatorInit ==
    /\ duration \in Durations
    /\ est_cb \in BOOLEAN
    /\ epc = "idle"
    /\ chunks = <<>>
    /\ est_calls = <<>>
    /\ BridgeIdle
    /\ TransIdle
    /\ PipeIdle
    /\ AddrIdle
    /\ FmtIdle
    /\ ExtraIdle

transcribe_audio ==
    \/ EnterTranscribe
    \/ WhisperPrints
    \/ ExitTranscribe

EstimatorSpec == EstimatorInit /\ [][transcribe_audio]_vars

(***************************************************************************)
(* Timestamp formatting: core/subtitles.py, format_timestamp.  The         *)
(* argument is the binary64 number nearest to k/1000 for a whole number k  *)
(* of milliseconds; it is kept as whole + r/1000 + err/(1000 * 2^shift),   *)
(* where err is the rounding error of the conversion, so that the          *)
(* subtraction and the multiplication of line 8 are computed with the      *)
(* rounding binary64 arithmetic gives them.                                *)
(***************************************************************************)
MaxMillis == 2000    \* the times 0..MaxMillis ms are formatted

RECURSIVE FloorLog2(_)
FloorLog2(n) == IF n < 2 THEN 0 ELSE 1 + FloorLog2(n \div 2)

RECURSIVE Pow2(_)
Pow2(n) == IF n = 0 THEN 1 ELSE 2 * Pow2(n - 1)

RECURSIVE Pow2Mod125(_)
Pow2Mod125(n) == IF n = 0 THEN 1 ELSE (2 * Pow2Mod125(n - 1)) % 125

\* The double nearest to k/1000.  With whole = k div 1000 and r = k mod 1000,
\* the doubles around it are 2^-(shift + 3) apart (53 significant bits), and
\* r/1000 = (r * 2^shift / 125) * 2^-(shift + 3): rho, the remainder of
\* r * 2^shift by 125, says how far r/1000 is above the double below it; the
\* nearest one is that double when rho <= 62 and the next when rho >= 63.
ToDouble(k) ==
    LET whole == k \div 1000
        r == k % 1000
        below == CHOOSE b \in 0..10 :
                     /\ Pow2(b) * r >= 1000
                     /\ \A c \in 0..(b - 1) : Pow2(c) * r < 1000
        shift == IF whole >= 1 THEN 49 - FloorLog2(whole)
                 ELSE IF r >= 1 THEN 49 + below ELSE 49
        rho == ((r % 125) * Pow2Mod125(shift)) % 125
    IN  [whole |-> whole, r |-> r, shift |-> shift,
         err |-> IF rho <= 62 THEN 0 - rho ELSE 125 - rho]

\* int((seconds - int(seconds)) * 1000).  The subtraction is exact; the
\* product is r + err / 2^shift before rounding.  With err >= 0 it rounds to a
\* double in [r, r + 1).  With err < 0 it lies below r, and rounds to r only
\* when it is no further from r than half the distance from r to the double
\* below r (2^(a - 53), or 2^(a - 54) when r = 2^a); if not, int() gives
\* r - 1.
Millis(x) ==
    IF x.err >= 0 THEN x.r
    ELSE LET a == FloorLog2(x.r)
             t == a - 53 + x.shift - (IF x.r = Pow2(a) THEN 1 ELSE 0)
         IN  IF t >= 0 /\ 0 - x.err <= Pow2(t) THEN x.r ELSE x.r - 1

\* str(n) for n >= 0
RECURSIVE DecStr(_)
DecStr(n) ==
    IF n < 10 THEN <<Digits[n + 1]>>
    ELSE DecStr(n \div 10) \o <<Digits[(n % 10) + 1]>>

\* f"{n:0{width}d}"
Pad(n, width) ==
    LET d == DecStr(n)
    IN  [z \in 1..(width - Len(d)) |-> "0"] \o d

\* format_timestamp(seconds) for seconds = float(k / 1000).  seconds lies in
\* [whole, whole + 1) and float // and % are exact, so hours, minutes and
\* secs are those of the whole seconds.
format_timestamp(k) ==
    LET seconds == ToDouble(k)
        hours == seconds.whole \div 3600
        minutes == (seconds.whole % 3600) \div 60
        secs == seconds.whole % 60
        millis == Millis(seconds)
    IN  Pad(hours, 2) \o <<":">> \o Pad(minutes, 2) \o <<":">> \o Pad(secs, 2)
            \o <<",">> \o Pad(millis, 3)

\* The start and end times of the segments written by write_srt
FormatInputs == (0..MaxMillis) \cup {12345, 3661999}

\* start_ts = format_timestamp(seg["start"])
FormatCall ==
    /\ fmt_out = <<>>
    /\ fmt_out' = format_timestamp(fmt_in)
    /\ UNCHANGED <<fmt_in, bridgeVars, transVars, pipeVars, addrVars, estVars, extraVars>>

FormatInit ==
    /\ fmt_in \in FormatInputs
    /\ fmt_out = <<>>
    /\ BridgeIdle
    /\ TransIdle
    /\ PipeIdle
    /\ AddrIdle
    /\ EstIdle
    /\ ExtraIdle

FormatSpec == FormatInit /\ [][FormatCall]_vars

(***************************************************************************)
(* Two transcriptions that use the progress capture: core/transcriber.py,  *)
(* transcribe_audio called with a callback and duration > 0 from two       *)
(* threads.  sys.stdout is one attribute of the process; each thread steps *)
(* through StdoutCapture(...), __enter__, the prints of model.transcribe   *)
(* and __exit__, and the threads interleave between the steps.             *)
(***************************************************************************)
MaxPrints == 2    \* writes one stream is given

\* StdoutCapture.__init__: self.original_stdout = sys.stdout
CapInit(c) ==
    /\ cpc[c] = "new"
    /\ original_stdout' = [original_stdout EXCEPT ![c] = sys_stdout]
    /\ cpc' = [cpc EXCEPT ![c] = "constructed"]
    /\ UNCHANGED <<sys_stdout, received, capOther>>

\* StdoutCapture.__enter__: self.original_stdout = sys.stdout; sys.stdout = self
CapEnter(c) ==
    /\ cpc[c] = "constructed"
    /\ original_stdout' = [original_stdout EXCEPT ![c] = sys_stdout]
    /\ sys_stdout' = c
    /\ cpc' = [cpc EXCEPT ![c] = "entered"]
    /\ UNCHANGED <<received, capOther>>

\* model.transcribe(..., verbose=True) of thread c prints a line: print
\* writes to whatever sys.stdout is at that moment.
CapPrint(c) ==
    /\ cpc[c] = "entered"
    /\ received[sys_stdout] < MaxPrints
    /\ received' = [received EXCEPT ![sys_stdout] = @ + 1]
    /\ UNCHANGED <<sys_stdout, original_stdout, cpc, capOther>>

\* StdoutCapture.__exit__ (transcribe returned or raised):
\* sys.stdout = self.original_stdout
CapExit(c) ==
    /\ cpc[c] = "entered"
    /\ sys_stdout' = original_stdout[c]
    /\ cpc' = [cpc EXCEPT ![c] = "exited"]
    /\ UNCHANGED <<original_stdout, received, capOther>>

CaptureInit ==
    /\ CapIdle
    /\ HistIdle
    /\ DelIdle
    /\ CfgIdle
    /\ BridgeIdle
    /\ TransIdle
    /\ PipeIdle
    /\ AddrIdle
    /\ EstIdle
    /\ FmtIdle

CaptureNext ==
    \E c \in Captures :
       \/ CapInit(c)
       \/ CapEnter(c)
       \/ CapPrint(c)
       \/ CapExit(c)

CaptureSpec == CaptureInit /\ [][CaptureNext]_vars

(***************************************************************************)
(* History: gui/main_window.py, MainWindow.add_to_history.  URLs are       *)
(* numbers; a title or language is a string, NoTitle for None.  last_used  *)
(* is the number of the call that wrote the entry (0: loaded from disk).   *)
(***************************************************************************)
HISTORY_LIMIT == 50
MaxAdds == 2    \* calls of add_to_history in a behaviour

\* bool(x) for a title: None and "" are false
Truthy(x) == x \notin {NoTitle, ""}

\* Histories config.json can hold when the window opens: n entries with
\* distinct URLs; entries without a translated title (a finished run), with
\* an empty one and with one (a translated title).
Stored(n) ==
    [k \in 1..n |->
        [url |-> k, title_original |-> "O",
         title_translated |-> IF k % 3 = 1 THEN NoTitle
                              ELSE IF k % 3 = 2 THEN "" ELSE "T",
         target_lang |-> "zh-CN", last_used |-> 0]]

\* for i, item in enumerate(self.config.history):
\*     if item.get("url") == url: existing_index = i; break
existing_index(h, url) ==
    IF \E k \in 1..Len(h) : h[k].url = url
    THEN CHOOSE k \in 1..Len(h) :
            /\ h[k].url = url
            /\ \A l \in 1..(k - 1) : h[l].url # url
    ELSE 0

\* Mutant of Preserve: the stored title is never carried over.
Preserve_Never(old, new_item) == new_item

\* if title_translated is None and old.get("title_translated"):
\*     new_item["title_translated"] = old["title_translated"]
\*     new_item["target_lang"] = old["target_lang"]
Preserve(old, new_item) ==
    IF new_item.title_translated = NoTitle /\ Truthy(old.title_translated)
    THEN [new_item EXCEPT !.title_translated = old.title_translated,
                      !.target_lang = old.target_lang]
    ELSE new_item

\* list.pop(k) then the rest, 1-based
Without(h, k) == [n \in 1..(Len(h) - 1) |-> IF n < k THEN h[n] ELSE h[n + 1]]

\* The list after the update and the size limit
Updated(h, new_item) ==
    LET at == existing_index(h, new_item.url)
        h1 == IF at > 0
              THEN Append(Without([h EXCEPT ![at] = Preserve(h[at], new_item)], at),
                          Preserve(h[at], new_item))
              ELSE Append(h, new_item)
    IN  IF Len(h1) > HISTORY_LIMIT THEN Tail(h1) ELSE h1

\* reversed(self.config.history)
Newest(h) == [n \in 1..Len(h) |-> h[Len(h) + 1 - n]]

add_to_history(url, title_original, title_translated, target_lang) ==
    /\ hlast.n < MaxAdds
    /\ LET new_item == [url |-> url, title_original |-> title_original,
                        title_translated |-> title_translated,
                        target_lang |-> target_lang, last_used |-> hlast.n + 1]
           at == existing_index(history, url)
       IN  /\ history' = Updated(history, new_item)
           /\ hist_saved' = history'
           /\ hist_ui' = Newest(history')
           /\ hlast' = [n |-> hlast.n + 1, url |-> url,
                        title_translated |-> title_translated,
                        target_lang |-> target_lang,
                        found |-> IF at > 0 THEN history[at] ELSE NoEntry]
    /\ UNCHANGED histOther

HistoryUrls == {1, 3, 50, 51, 52}
HistoryInit ==
    /\ \E n \in {0, 3, HISTORY_LIMIT - 1, HISTORY_LIMIT} :
          /\ history = Stored(n)
          /\ hist_saved = Stored(n)
          /\ hist_ui = Newest(Stored(n))
    /\ hlast = NoCall
    /\ CapIdle
    /\ DelIdle
    /\ CfgIdle
    /\ BridgeIdle
    /\ TransIdle
    /\ PipeIdle
    /\ AddrIdle
    /\ EstIdle
    /\ FmtIdle

HistoryNext ==
    \E url \in HistoryUrls, title_translated \in {NoTitle, "", "N"},
       target_lang \in {NoTitle, "en"} :
          add_to_history(url, "A", title_translated, target_lang)

HistorySpec == HistoryInit /\ [][HistoryNext]_vars

(***************************************************************************)
(* Deleting outputs: backend_api.py, delete_output, over the entries the   *)
(* two orchestrators leave in output_dir: process_video makes the folder   *)
(* "{safe_title}_{video_id}" (and fails after opening its metadata file),  *)
(* WorkerThread.run writes the flat files "{video_id}.m4a" and             *)
(* "{video_id}_original.srt".  Both read output_dir from the same          *)
(* config.json.  An entry records the content id it was written for.       *)
(***************************************************************************)
MaxEntries == 4    \* entries of output_dir

\* Content ids (three characters of [0-9A-Za-z_-] stand for the eleven)
DeleteIds == {<<"a", "b", "c">>, <<"b", "c", "_">>, <<"x", "y", "z">>}
SafeTitles == {<<"T">>, <<"M", "y", " ", "T">>}

Entry(name, is_dir, video_id) == [name |-> name, is_dir |-> is_dir, owner |-> video_id]

\* folder_name = f"{safe_title}_{video_id}"; os.makedirs(video_output_dir,
\* exist_ok=True)
FolderName(safe_title, video_id) == safe_title \o <<"_">> \o video_id

\* process_video up to the NameError: the folder (with the opened
\* metadata file inside) stays.
MakeFolder(safe_title, video_id) ==
    /\ Cardinality(out_tree) < MaxEntries
    /\ out_tree' = out_tree \cup {Entry(FolderName(safe_title, video_id), TRUE, video_id)}
    /\ UNCHANGED <<del_last, delOther>>

\* WorkerThread.run: the audio and the original transcript in output_dir
WriteFlat(video_id) ==
    /\ Cardinality(out_tree) + 1 < MaxEntries
    /\ out_tree' = out_tree \cup {Entry(AudioName(video_id), FALSE, video_id),
                                  Entry(OriginalName(video_id), FALSE, video_id)}
    /\ UNCHANGED <<del_last, delOther>>

\* if d.endswith(f"_{req.video_id}")
FolderMatches(e, video_id) == e.is_dir /\ EndsWith(e.name, <<"_">> \o video_id)

\* if req.video_id in f  (os.listdir: files and folders alike)
NameMatches(e, video_id) == Contains(e.name, video_id)

\* delete_output(req).  The walk removes the first matching folder it meets
\* (os.walk gives the folders in directory order) and stops; only when no
\* folder matched are the entries whose name contains the id removed.
\* os.remove raises on a folder and shutil.rmtree or os.remove can fail: the
\* except clause answers ok = false with what was removed before.
delete_output(video_id) ==
    LET folders == {e \in out_tree : FolderMatches(e, video_id)}
        named   == {e \in out_tree : NameMatches(e, video_id)}
        Answer(ok, deleted, removed) ==
            /\ out_tree' = out_tree \ removed
            /\ del_last' = [called |-> TRUE, video_id |-> video_id, ok |-> ok,
                            deleted |-> deleted, removed |-> removed]
    IN  /\ \/ \E d \in folders : Answer(TRUE, TRUE, {d})
           \/ folders # {} /\ Answer(FALSE, FALSE, {})
           \/ /\ folders = {}
              /\ \A e \in named : ~e.is_dir
              /\ Answer(TRUE, named # {}, named)
           \/ /\ folders = {}
              /\ \E done \in SUBSET named :
                    /\ done # named
                    /\ \A e \in done : ~e.is_dir
                    /\ Answer(FALSE, done # {}, done)
        /\ UNCHANGED delOther

DeleteInit ==
    /\ out_tree = {}
    /\ del_last = NoDelete
    /\ CapIdle
    /\ HistIdle
    /\ CfgIdle
    /\ BridgeIdle
    /\ TransIdle
    /\ PipeIdle
    /\ AddrIdle
    /\ EstIdle
    /\ FmtIdle

DeleteNext ==
    \/ \E t \in SafeTitles, id \in DeleteIds : MakeFolder(t, id)
    \/ \E id \in DeleteIds : WriteFlat(id)
    \/ \E id \in DeleteIds : delete_output(id)

DeleteSpec == DeleteInit /\ [][DeleteNext]_vars

(***************************************************************************)
(* Configuration record: core/config.py (AppConfig, load_config,           *)
(* save_config) and the endpoints of backend_api.py that read or write     *)
(* download_dir.  An object is a function from attribute names to values   *)
(* (all written as strings); config.json holds one JSON object.            *)
(***************************************************************************)
\* @dataclass class AppConfig: the fields and their defaults
AppConfig ==
    [output_dir |-> "./output", whisper_model |-> "turbo", whisper_device |-> "auto",
     mpv_path |-> "", source_lang |-> "auto", target_lang |-> "zh-CN",
     gemini_api_key |-> "None", gemini_model |-> "gemini-2.5-flash-lite",
     enable_translation |-> "False", history |-> "[]"]

\* load_config(): the defaults when there is no file, else AppConfig(**the
\* keys of the file that are fields of the dataclass)
load_config ==
    IF cfg_file = <<>> THEN AppConfig
    ELSE [k \in DOMAIN AppConfig |->
             IF k \in DOMAIN cfg_file[1] THEN cfg_file[1][k] ELSE AppConfig[k]]

\* dataclasses.asdict(cfg): the fields of the dataclass, nothing else
asdict(cfg) == [k \in DOMAIN AppConfig |-> cfg[k]]

\* config.<name> = value on the loaded object
SetAttr(cfg, name, value) ==
    [k \in DOMAIN cfg \cup {name} |-> IF k = name THEN value ELSE cfg[k]]

\* save_config(cfg): json.dump(asdict(cfg), f)
save_config(cfg) == cfg_file' = <<asdict(cfg)>>

\* What an endpoint that reads config.download_dir from a freshly loaded
\* record gets: the value, or the AttributeError
ReadDownloadDir(op) ==
    LET config == load_config
    IN  IF "download_dir" \in DOMAIN config
        THEN [op |-> op, ok |-> TRUE, download_dir |-> config["download_dir"]]
        ELSE [op |-> op, ok |-> FALSE, download_dir |-> ""]

\* POST /api/config: config = load_config(); if req.download_dir:
\* config.download_dir = req.download_dir; save_config(config); {"ok": True}
update_config_endpoint(download_dir) ==
    LET config == load_config
    IN  /\ save_config(IF download_dir # ""
                       THEN SetAttr(config, "download_dir", download_dir)
                       ELSE config)
        /\ cfg_want' = IF download_dir # "" THEN download_dir ELSE cfg_want
        /\ cfg_last' = [op |-> "update", ok |-> TRUE, download_dir |-> download_dir]
        /\ UNCHANGED cfgOther

\* GET /api/config: ConfigResponse(..., download_dir=config.download_dir, ...)
get_config_endpoint ==
    /\ cfg_last' = ReadDownloadDir("get_config")
    /\ UNCHANGED <<cfg_file, cfg_want, cfgOther>>

\* POST /api/download: downloads_dir = config.download_dir, inside the try
download_media_endpoint ==
    /\ cfg_last' = ReadDownloadDir("download")
    /\ UNCHANGED <<cfg_file, cfg_want, cfgOther>>

\* GET /api/downloads: downloads_dir = config.download_dir, inside the try
list_downloads ==
    /\ cfg_last' = ReadDownloadDir("list_downloads")
    /\ UNCHANGED <<cfg_file, cfg_want, cfgOther>>

\* MainWindow.save_current_config: the fields of the window, then save_config
save_current_config(output_dir, whisper_model, translate) ==
    /\ save_config([load_config EXCEPT !.output_dir = output_dir,
                                       !.whisper_model = whisper_model,
                                       !.enable_translation = translate])
    /\ cfg_last' = [op |-> "gui_save", ok |-> TRUE, download_dir |-> ""]
    /\ UNCHANGED <<cfg_want, cfgOther>>

ConfigInit ==
    /\ cfg_file = <<>>
    /\ cfg_want = ""
    /\ cfg_last = NoAnswer
    /\ CapIdle
    /\ HistIdle
    /\ DelIdle
    /\ BridgeIdle
    /\ TransIdle
    /\ PipeIdle
    /\ AddrIdle
    /\ EstIdle
    /\ FmtIdle

ConfigNext ==
    \/ \E d \in {"", "/media/dl", "D:/dl"} : update_config_endpoint(d)
    \/ get_config_endpoint
    \/ download_media_endpoint
    \/ list_downloads
    \/ \E o \in {"./output", "/srv/out"}, w \in {"turbo", "base"},
          e \in {"False", "True"} : save_current_config(o, w, e)

ConfigSpec == ConfigInit /\ [][ConfigNext]_vars

(***************************************************************************)
(* Progress Bridge: properties                                             *)
(***************************************************************************)
\* Positions of the 'finished' / 'error' events of a sequence of items
TerminalPositions(seq) ==
    {n \in 1..Len(seq) : seq[n].status \in {"finished", "error"}}

\* The events put on the channel (the sentinel is not an event)
EnqueuedEvents == SelectSeq(enq, LAMBDA x : x.status # "None")

IsPrefix(s, t) == Len(s) <= Len(t) /\ SubSeq(t, 1, Len(s)) = s

\* C1: the events yielded by one invocation hold at most one terminal event
\* ('finished' or 'error'), nothing is yielded after it, and once the
\* generator has left its loop exactly one has been yielded, as the last event.
C1_OneTerminalLast ==
    /\ Cardinality(TerminalPositions(yielded)) <= 1
    /\ TerminalPositions(yielded) \subseteq {Len(yielded)}
    /\ gpc \in {"join", "returned"} =>
           TerminalPositions(yielded) = {Len(yielded)} /\ yielded # <<>>

\* C1 witness: a download that raised after progress was reported ran to the
\* end of the stream.
C1_Witness ==
    /\ gpc = "returned"
    /\ Len(yielded) >= 3
    /\ yielded[Len(yielded)] = Error("hook failed")

\* C2 (as claimed): whenever the invocation has ended, however the caller
\* consumed the stream, a terminal event that was delivered implies the worker
\* thread was joined.
C2_JoinedOnceTerminalObserved ==
    (gpc \in {"returned", "closed"} /\ TerminalPositions(yielded) # {})
        => joined

\* C3: what was yielded is always a prefix of the events put on the channel,
\* in put order, and when the generator returns it is all of them.
C3_YieldedIsEnqueued ==
    /\ IsPrefix(yielded, EnqueuedEvents)
    /\ gpc \in {"join", "returned"} => yielded = EnqueuedEvents

\* C3 witness: a stream of several progress events and the terminal event,
\* fully consumed.
C3_Witness ==
    /\ gpc = "returned"
    /\ Len(yielded) = MaxHooks + 1
    /\ yielded[1] = Downloading(1)
    /\ yielded[2] = Processing

\* C4: an exception raised in the worker is caught there (the worker goes on
\* to its except clause, then its finally clause), it is put on the channel as
\* an 'error' event carrying str(e), that event is what the consumer's stream
\* ends with, and the consumer side has no raising state.
C4_ExceptionBecomesErrorEvent ==
    /\ gpc \in {"created", "get", "yield", "join", "returned", "closed"}
    /\ exc # "" =>
        /\ wpc \in {"except", "finally", "exited"}
        /\ wpc \in {"finally", "exited"} =>
               enq # <<>> /\ \E n \in 1..Len(enq) : enq[n] = Error(exc)
        /\ gpc \in {"join", "returned"} =>
               yielded # <<>> /\ yielded[Len(yielded)] = Error(exc)

\* C4 witness: the download raised and the consumer received the error event.
C4_Witness ==
    /\ exc = "network unreachable"
    /\ gpc = "returned"
    /\ yielded = <<Error("network unreachable")>>

\* The worker's puts, once it has exited: one terminal event, then the
\* sentinel, and nothing after it.
WorkerTailOk ==
    /\ Len(enq) >= 2
    /\ enq[Len(enq)] = None
    /\ TerminalPositions(enq) = {Len(enq) - 1}
    /\ \A n \in 1..(Len(enq) - 1) : enq[n] # None

\* C5: on every path the worker's last puts are one terminal event and then
\* the sentinel, after which it exits; and a consumer waiting on the channel
\* always gets an item, so the call returns (or the caller closed it).
C5_WorkerEndsStreamAndConsumerReturns ==
    /\ [](wpc = "exited" => WorkerTailOk)
    /\ ((gpc = "get") ~> (gpc \in {"yield", "join"}))
    /\ <>(wpc = "exited")
    /\ <>(gpc \in {"returned", "closed"})

\* C5 witness: the no-info path, consumed to the end; the sentinel is what
\* the worker put last.
C5_Witness ==
    /\ wpc = "exited"
    /\ gpc = "returned"
    /\ enq = <<Error("No info returned"), None>>

(***************************************************************************)
(* Batch Translation Engine: properties                                    *)
(***************************************************************************)
CeilDiv(n, b) == IF n % b = 0 THEN n \div b ELSE (n \div b) + 1

\* The positions of the entries of tlog of one kind
LogPositions(ev) == {p \in 1..Len(tlog) : tlog[p].ev = ev}

\* The collaborator calls made so far, in order
Calls == SelectSeq(tlog, LAMBDA e : e.ev = "call")

\* The 1-based positions in `segments` of batch k of the partition
BatchMembers(k) ==
    {n \in 1..Len(segments) :
        k * BATCH_SIZE < n /\ n <= Min((k + 1) * BATCH_SIZE, Len(segments))}

\* The failure texts of the model, by what the claims call them
CredentialMsgs    == {LowerKeyMsg, UpperKeyMsg}
NonCredentialMsgs == {QuotaMsg, SpacedKeyMsg, ParseMsg}

\* C6: the n-th batch attempted (0-based) is the slice [n*B, min((n+1)*B, N))
\* of the segments, batches are attempted in increasing index order, never
\* more than ceil(N/B) of them, and when the function returns exactly
\* ceil(N/B) were, every segment lying in exactly one of them.
C6_BatchPartition ==
    /\ \A n \in 1..Len(Calls) :
          /\ Calls[n].idx = n - 1
          /\ Calls[n].lo = (n - 1) * BATCH_SIZE
          /\ Calls[n].hi = Min(n * BATCH_SIZE, Len(segments))
    /\ Len(Calls) <= CeilDiv(Len(segments), BATCH_SIZE)
    /\ tpc = "returned" =>
          /\ Len(Calls) = CeilDiv(Len(segments), BATCH_SIZE)
          /\ \A k \in 0..(Len(segments) - 1) :
                Cardinality({n \in 1..Len(Calls) :
                                Calls[n].lo <= k /\ k < Calls[n].hi}) = 1

\* C6 witness: 65 segments were processed as the batches [0,30) [30,60) [60,65).
C6_Witness ==
    /\ tpc = "returned"
    /\ Len(segments) = 65
    /\ Len(Calls) = 3
    /\ Calls[2].lo = 30 /\ Calls[2].hi = 60
    /\ Calls[3].lo = 60 /\ Calls[3].hi = 65

\* C7: with a progress callback, every collaborator call for batch b is
\* immediately preceded by one callback (b, ceil(N/B)), b 0-based, which
\* itself comes after the end of batch b-1 (its sleep or its failure); there
\* are as many callbacks as calls, so one per attempted batch.
C7_ProgressBeforeEachCall ==
    has_cb =>
        /\ Cardinality(LogPositions("progress")) = Cardinality(LogPositions("call"))
        /\ \A p \in LogPositions("call") :
              /\ p > 1
              /\ tlog[p - 1].ev = "progress"
              /\ tlog[p - 1].idx = tlog[p].idx
              /\ tlog[p - 1].total = CeilDiv(Len(segments), BATCH_SIZE)
              /\ IF tlog[p].idx = 0
                 THEN p = 2
                 ELSE /\ p > 2
                      /\ tlog[p - 2].ev \in {"sleep", "fail"}
                      /\ tlog[p - 2].idx = tlog[p].idx - 1

\* C7 witness: 65 segments, callbacks (0,3), (1,3), (2,3), each right before
\* its call.
C7_Witness ==
    /\ has_cb
    /\ tpc = "returned"
    /\ Len(segments) = 65
    /\ SelectSeq(tlog, LAMBDA e : e.ev = "progress") =
          << LogEntry("progress", 0, 3, 0, 0, <<>>),
             LogEntry("progress", 1, 3, 0, 0, <<>>),
             LogEntry("progress", 2, 3, 0, 0, <<>>) >>

\* C8: after a failure of batch k whose text is not a credential failure,
\* every segment of batch k carries the failure placeholder with that text,
\* the function has not raised because of it (if it raised inside the loop,
\* its last step was a credential failure), and batch k+1, if there is one,
\* has been called or is the iteration about to run.
C8_NonFatalFailureContinues ==
    /\ \A p \in LogPositions("fail") :
          tlog[p].msg \in NonCredentialMsgs =>
              /\ \A n \in BatchMembers(tlog[p].idx) :
                    segments[n].translated = FailedMarker(tlog[p].msg)
              /\ (tlog[p].idx + 1) * BATCH_SIZE < Len(segments) =>
                    \/ \E c \in LogPositions("call") : tlog[c].idx = tlog[p].idx + 1
                    \/ /\ tpc = "loop"
                       /\ batch_idx = tlog[p].idx + 1
                       /\ i < Len(segments)
    /\ (tpc = "raised" /\ tlog # <<>>) =>
          /\ tlog[Len(tlog)].ev = "fail"
          /\ tlog[Len(tlog)].msg \in CredentialMsgs

\* C8 witness: batch 0 failed with a quota error and batch 1 was called.
C8_Witness ==
    /\ \E p \in LogPositions("fail") : tlog[p].idx = 0 /\ tlog[p].msg = QuotaMsg
    /\ \E c \in LogPositions("call") : tlog[c].idx = 1
    /\ segments[BATCH_SIZE].translated = FailedMarker(QuotaMsg)

\* C9: after a failure of batch k whose text holds API_KEY in any letter
\* case, the function has raised that failure, the failure is the last thing
\* that happened (no later callback, call or sleep), and no segment of a
\* batch after k has a 'translated' key.
C9_CredentialFailureAborts ==
    \A p \in LogPositions("fail") :
        tlog[p].msg \in CredentialMsgs =>
            /\ tpc = "raised"
            /\ raised = tlog[p].msg
            /\ p = Len(tlog)
            /\ \A c \in LogPositions("call") : tlog[c].idx <= tlog[p].idx
            /\ \A n \in 1..Len(segments) :
                  n > (tlog[p].idx + 1) * BATCH_SIZE =>
                      segments[n].translated = NoField

\* C9 witness: of three batches the second failed with a lower-case
\* credential failure; the third was left alone.
C9_Witness ==
    /\ tpc = "raised"
    /\ raised = LowerKeyMsg
    /\ Len(segments) = 65
    /\ Len(Calls) = 2
    /\ segments[65].translated = NoField

\* C10 (as claimed): before the call for batch b >= 1 the delay that follows
\* batch b-1 has elapsed, whether b-1 succeeded or failed, and no delay
\* follows the last batch.
C10_DelayBetweenBatchesOnly ==
    /\ \A c \in LogPositions("call") :
          tlog[c].idx >= 1 =>
              \E d \in LogPositions("sleep") :
                  d < c /\ tlog[d].idx = tlog[c].idx - 1
    /\ \A d \in LogPositions("sleep") :
          tlog[d].idx # CeilDiv(Len(segments), BATCH_SIZE) - 1


\* The ids of a segment list, as a bag (id -> number of segments with it)
IdBag(segs) ==
    [d \in {segs[n].id : n \in 1..Len(segs)} |->
        Cardinality({n \in 1..Len(segs) : segs[n].id = d})]

\* The function ended inside its loop: it returned, or re-raised a batch failure
EndedInLoop == tpc = "returned" \/ (tpc = "raised" /\ tlog # <<>>)

\* C11: when the function has ended (returned, or re-raised a batch failure)
\* the bag of segment ids is the input's; after a normal return every
\* segment has a 'translated' value; and a segment without one exists only
\* when the function ended by re-raising a credential failure.
C11_TranslatedPostCondition ==
    EndedInLoop =>
        /\ IdBag(segments) = IdBag(segments0)
        /\ tpc = "returned" =>
              \A n \in 1..Len(segments) : segments[n].translated # NoField
        /\ (\E n \in 1..Len(segments) : segments[n].translated = NoField) =>
              /\ tpc = "raised"
              /\ raised \in CredentialMsgs
              /\ tlog[Len(tlog)].ev = "fail"

\* C11 witness: a normal return in which a response left out an id (the
\* segment got the missing marker) and another batch failed non-fatally.
C11_Witness ==
    /\ tpc = "returned"
    /\ Len(segments) = 65
    /\ segments[1].translated = MissingMarker
    /\ segments[31].translated = FailedMarker(ParseMsg)
    /\ segments[65].translated = Tr(65)

\* A segment without its 'translated' key
Untranslated(seg) == [seg EXCEPT !.translated = NoField]

\* C12: in every state of a call (before, during and after, whatever the
\* batches did) the list has the length and order of the input and each
\* segment differs from the input's at most in 'translated'; the ids stay
\* the 1..N that transcription assigned.
C12_OnlyTranslatedChanges ==
    /\ Len(segments) = Len(segments0)
    /\ \A n \in 1..Len(segments) :
          /\ Untranslated(segments[n]) = segments0[n]
          /\ segments[n].id = n

\* C12 witness: a fatal abort after a merged batch: segments of all three
\* kinds (merged, marked failed, untouched) are present.
C12_Witness ==
    /\ tpc = "raised"
    /\ Len(segments) = 65
    /\ segments[1].translated = Tr(1)
    /\ segments[31].translated = FailedMarker(UpperKeyMsg)
    /\ segments[61].translated = NoField

(***************************************************************************)
(* Pipeline Orchestrator: properties                                       *)
(***************************************************************************)
StageRank(s) ==
    CASE s = "metadata"           -> 1
      [] s = "media"              -> 2
      [] s = "transcription"      -> 3
      [] s = "persist_original"   -> 4
      [] s = "translation"        -> 5
      [] s = "persist_translated" -> 6
      [] s \in {"done", "failed"} -> 7

Terminated == ppc \in {"done", "failed"}
StagePositions(s) == {p \in 1..Len(plog) : plog[p] = s}
RunWithoutTranslation ==
    <<"media", "transcription", "persist_original", "done">>
RunWithTranslation ==
    <<"media", "transcription", "persist_original", "translation",
      "persist_translated", "done">>

\* C14: the stages a run has started, followed by its terminal state, are in
\* the order metadata, media, transcription, persist original, translation,
\* persist translated, Done/Failed, each at most once; a run that is Done
\* went through all of its stages; the original transcript is on disk before
\* the engine attempts a batch; the translated transcript is persisted only
\* after the engine returned; the terminal state is the last entry and the
\* engine is not running in it.
C14_StageOrder ==
    /\ \A p, r \in 1..Len(plog) :
          p < r => StageRank(plog[p]) < StageRank(plog[r])
    /\ tlog # <<>> =>
          /\ "original" \in disk
          /\ \E p \in StagePositions("persist_original") :
                \A r \in StagePositions("translation") : p < r
    /\ StagePositions("persist_translated") # {} => tpc = "returned"
    /\ Terminated <=>
          (plog # <<>> /\ plog[Len(plog)] \in {"done", "failed"})
    /\ Terminated => tpc \in {"uncalled", "returned", "raised"}
    /\ ppc = "done" => plog \in {RunWithoutTranslation, RunWithTranslation}

\* C14 witness: a run with two translation batches that reached Done.
C14_Witness ==
    /\ ppc = "done"
    /\ plog = RunWithTranslation
    /\ Len(Calls) = 2

\* C15: a run that has ended and in which no collaborator call failed
\* (no stage raised, no batch failed) is Done, has reported success, and its
\* original transcript is written.
C15_AllSucceedEndsDone ==
    (Terminated /\ ~collab_failed /\ LogPositions("fail") = {}) =>
        /\ ppc = "done"
        /\ outcomes = <<"success">>
        /\ "original" \in disk

C17_SkipIsNotAnError ==
    ~TranslationWanted =>
        /\ tpc = "uncalled"
        /\ tlog = <<>>
        /\ "translated" \notin disk
        /\ (Terminated /\ ~collab_failed) =>
              (ppc = "done" /\ outcomes = <<"success">>)

\* C18: in a failed run the artifacts of the stages completed before the
\* failing one are on disk and no artifact of a later stage is.
C18_NoRollback ==
    ppc = "failed" =>
        /\ failed_at \in {"transcription", "persist_original", "translation",
                          "persist_translated"} => "media" \in disk
        /\ failed_at \in {"translation", "persist_translated"} =>
              "original" \in disk
        /\ failed_at = "metadata" => "media" \notin disk
        /\ failed_at \in {"metadata", "media", "transcription"} =>
              "original" \notin disk
        /\ failed_at \in {"metadata", "media", "transcription",
                          "persist_original", "translation"} =>
              "translated" \notin disk

\* C18 witness: the engine aborted on a credential failure; the media file
\* and the original transcript are what the run leaves.
C18_Witness ==
    /\ ppc = "failed"
    /\ failed_at = "translation"
    /\ disk = {"media", "original"}

(***************************************************************************)
(* Output Addressing Scheme: properties                                    *)
(***************************************************************************)
NoUnderscore(s) == \A n \in 1..Len(s) : s[n] # "_"

\* What a scan reports for a file is what the file was written as
RoundTrips(w) ==
    \A l \in listed :
        l.filename = w.filename =>
            (l.video_id = w.video_id /\ l.type = w.type /\ l.lang = w.lang)

\* The transcripts written for a content id without underscore
PlainTranscripts ==
    {w \in written : w.type # "audio" /\ NoUnderscore(w.video_id)}

\* C13 as stated: every transcript written for a contentId without
\* underscore and, when translated, a languageCode other than 'original',
\* is reported by the directory scan with the same (contentId, kind,
\* languageCode).
C13_RoundTripAsStated ==
    \A w \in PlainTranscripts :
        (w.type = "srt_translated" => w.lang # Original) => RoundTrips(w)

\* C13 (amended): the round trip holds when, in addition, the languageCode
\* contains no underscore.
C13_RoundTrip ==
    \A w \in PlainTranscripts :
        (w.type = "srt_translated" =>
            (w.lang # Original /\ NoUnderscore(w.lang))) => RoundTrips(w)

\* C13 witness: 'abc123_zh-CN.srt' and 'abc123_original.srt' were written
\* and a scan reported them.
C13_Witness ==
    /\ OutputFile(TranslatedName(<<"a", "b", "c", "1", "2", "3">>, <<"z", "h", "-", "C", "N">>), <<"a", "b", "c", "1", "2", "3">>,
                  "srt_translated", <<"z", "h", "-", "C", "N">>) \in written \cap listed
    /\ OutputFile(OriginalName(<<"a", "b", "c", "1", "2", "3">>), <<"a", "b", "c", "1", "2", "3">>, "srt_original", NoLang)
          \in written \cap listed

(***************************************************************************)
(* Stage Progress Estimator: properties                                    *)
(***************************************************************************)
\* The chunks with the elapsed time, in milliseconds, of the timestamp token
\* each one holds (MM*60 + SS + mmm/1000), -1 when it holds none.
TokenTable == {
    <<<<"[", "0", "0", ":", "0", "0", ".", "0", "0", "0", " ", "-", "-", ">", " ", "0", "0", ":", "0", "8", ".", "0", "0", "0", "]", " ", "H", "i">>,
      8000>>,
    <<<<"[", "0", "0", ":", "0", "8", ".", "0", "0", "0", " ", "-", "-", ">", " ", "0", "1", ":", "4", "0", ".", "5", "0", "0", "]">>,
      100500>>,
    <<<<"D", "e", "t", "e", "c", "t", "e", "d", " ", "l", "a", "n", "g", "u", "a", "g", "e", ":", " ", "e", "n">>,
      -1>>,
    <<<<"-", "-", ">", " ", "0", "0", ":", "0", "5", ".", "0", "0", "0", "]">>,
      -1>>,
    <<<<"[", "0", "1", ":", "0", "0", ":", "0", "0", ".", "0", "0", "0", " ", "-", "-", ">", " ", "0", "1", ":", "0", "0", ":", "0", "8", ".", "0", "0", "0", "]">>,
      -1>>,
    <<<<"[", "a", " ", "-", "-", ">", " ", "0", "0", ":", "0", "1", ".", "0", "0", "0", "]", " ", "[", "b", " ", "-", "-", ">", " ", "0", "0", ":", "0", "2", ".", "0", "0", "0", "]">>,
      2000>>,
    <<<<"[", "0", "0", ":", "0", "0", ".", "0", "0", "0", " ", "-", "-", ">", "0", "0", ":", "0", "3", ".", "0", "0", "0", "]">>,
      3000>>,
    <<<<>>,
      -1>>,
    <<<<"[", "\n", "-", "-", ">", " ", "0", "0", ":", "0", "4", ".", "0", "0", "0", "]">>,
      -1>>,
    <<<<"[", "x", " ", "-", "-", ">", " ", " ", "9", "9", ":", "5", "9", ".", "9", "9", "9", "]">>,
      5999999>>,
    <<<<"[", "0", "0", ":", "0", "0", ".", "0", "0", "0", " ", "-", "-", ">", " ", "0", "0", ":", "0", "0", ".", "0", "0", "0", "]">>,
      0>>,
    <<<<"[", "0", "0", ":", "0", "1", ".", "0", "0", "0", " ", "-", "-", ">", " ", "0", ":", "0", "2", ".", "0", "0", "0", "]">>,
      -1>> }

ElapsedOf(text) == (CHOOSE row \in TokenTable : row[1] = text)[2]

\* The callback values the chunks call for, in order
RECURSIVE ExpectedCalls(_)
ExpectedCalls(cs) ==
    IF cs = <<>> THEN <<>>
    ELSE LET e == ElapsedOf(Head(cs))
         IN  (IF e < 0 THEN <<>>
              ELSE IF e >= duration THEN <<<<1, 1>>>> ELSE <<<<e, duration>>>>)
             \o ExpectedCalls(Tail(cs))

\* C19: the callback is invoked once for each chunk that holds a timestamp
\* token, with min(1, elapsed/duration), and for no other chunk, when
\* duration > 0 (and a callback was given); never when duration <= 0; every
\* value passed lies in [0, 1].
C19_CallbackIffToken ==
    /\ est_calls = IF duration > 0 /\ est_cb THEN ExpectedCalls(chunks) ELSE <<>>
    /\ \A n \in 1..Len(est_calls) :
          /\ est_calls[n][2] > 0
          /\ 0 <= est_calls[n][1]
          /\ est_calls[n][1] <= est_calls[n][2]

\* C19 witness: a chunk without a token was ignored, then a chunk whose
\* timestamp lies past the duration was reported as 1.
C19_Witness ==
    /\ duration = 5000
    /\ Len(chunks) = 2
    /\ ElapsedOf(chunks[1]) = -1
    /\ ElapsedOf(chunks[2]) = 8000
    /\ est_calls = <<<<1, 1>>>>

(***************************************************************************)
(* Timestamp formatting: properties                                        *)
(***************************************************************************)
\* 'HH:MM:SS,mmm' of a whole number k of milliseconds
Rendered(k) ==
    Pad(k \div 3600000, 2) \o <<":">> \o Pad((k % 3600000) \div 60000, 2)
        \o <<":">> \o Pad((k \div 1000) % 60, 2) \o <<",">> \o Pad(k % 1000, 3)

\* C20: the string returned for a time of k milliseconds is 'HH:MM:SS,mmm'
\* with HH = k div 3600 s, MM = (k mod 3600 s) div 60 s, SS = whole seconds
\* mod 60, mmm = k mod 1000, zero-padded; format(0.0) = '00:00:00,000',
\* format(12.345) = '00:00:12,345', format(3661.999) = '01:01:01,999'.
C20_FormatTimestamp ==
    fmt_out # <<>> =>
        /\ fmt_out = Rendered(fmt_in)
        /\ fmt_in = 0 => fmt_out = <<"0", "0", ":", "0", "0", ":", "0", "0", ",", "0", "0", "0">>
        /\ fmt_in = 12345 => fmt_out = <<"0", "0", ":", "0", "0", ":", "1", "2", ",", "3", "4", "5">>
        /\ fmt_in = 3661999 => fmt_out = <<"0", "1", ":", "0", "1", ":", "0", "1", ",", "9", "9", "9">>

(***************************************************************************)
(* Progress Bridge and translation engine: further properties              *)
(***************************************************************************)
\* C21: the consumer leaves its loop only with the terminal marker (None) in
\* hand, and when the generator has returned nothing the worker put is left
\* in the channel.
C21_DrainedToMarker ==
    /\ gpc \in {"join", "returned"} => item = None
    /\ gpc = "returned" => q = <<>>

\* The batches whose try block ran to its end, with the response's shape
OkEntries == {p \in 1..Len(tlog) : tlog[p].ev = "ok"}

\* Whether the response of that shape names the id of the n-th segment of
\* its batch
Names(shape, n) ==
    \/ shape \in {"all", "reversed"}
    \/ shape = "dropFirst" /\ n > 1

\* C22: after a batch whose call succeeded and whose response parsed, each
\* segment of the batch whose id occurs in the response holds the value
\* returned for its id, whatever the order of the response, and each other
\* segment of the batch holds '[Translation Error]'; the segments of batches
\* not yet attempted are untouched; and the call is never left by a raise
\* after such a batch.
C22_MergeById ==
    /\ \A p \in OkEntries :
          \A m \in BatchMembers(tlog[p].idx) :
              segments[m].translated =
                  IF Names(tlog[p].msg[1], m - tlog[p].idx * BATCH_SIZE)
                  THEN Tr(segments[m].id)
                  ELSE MissingMarker
    /\ \A k \in (i + 1)..Len(segments) :
          tpc # "raised" => segments[k].translated = NoField
    /\ tpc = "raised" /\ tlog # <<>> => tlog[Len(tlog)].ev = "fail"

\* C22 witness: the first response came in reverse order, the second left
\* out the id of segment 31, and the third batch was still processed.
C22_Witness ==
    /\ tpc = "returned"
    /\ Len(segments) = 65
    /\ segments[1].translated = Tr(1)
    /\ segments[30].translated = Tr(30)
    /\ segments[31].translated = MissingMarker
    /\ segments[32].translated = Tr(32)
    /\ segments[61].translated = MissingMarker
    /\ \E p \in OkEntries : tlog[p].idx = 0 /\ tlog[p].msg = <<"reversed">>

(***************************************************************************)
(* Output Addressing Scheme: reverse parsing                               *)
(***************************************************************************)
Stem(l) == SplitExt(l.filename)[1]
IsTranscript(l) == Lower(SplitExt(l.filename)[2]) = Srt
Underscores(s) == {n \in 1..Len(s) : s[n] = "_"}
LastUnderscore(s) == CHOOSE n \in Underscores(s) : \A m \in Underscores(s) : m <= n

\* C23: a transcript whose stem ends with '_original' is reported as the
\* original transcript of the contentId that is the stem without its last
\* nine characters (the one trailing '_original').
C23_OriginalSuffixRemoved ==
    \A l \in listed :
        (IsTranscript(l) /\ EndsWith(Stem(l), UnderscoreOriginal)) =>
            /\ l.type = "srt_original"
            /\ l.video_id = SubSeq(Stem(l), 1, Len(Stem(l)) - Len(UnderscoreOriginal))

\* The report of a translated transcript: language = what follows the last
\* underscore of the stem, contentId = what precedes it
SplitAtLastUnderscore(l) ==
    /\ l.type = "srt_translated"
    /\ l.lang = SubSeq(Stem(l), LastUnderscore(Stem(l)) + 1, Len(Stem(l)))
    /\ l.video_id = SubSeq(Stem(l), 1, LastUnderscore(Stem(l)) - 1)

\* C24 as stated: every listed file whose stem does not end with '_original'
\* and has an underscore is reported as a translated transcript, split at
\* the last underscore; every listed file whose stem has no underscore is
\* reported as media with contentId = stem.
C24_ParseAsStated ==
    \A l \in listed :
        /\ (~EndsWith(Stem(l), UnderscoreOriginal) /\ Underscores(Stem(l)) # {}) =>
              SplitAtLastUnderscore(l)
        /\ Underscores(Stem(l)) = {} =>
              (l.type = "audio" /\ l.video_id = Stem(l))

\* C24 (amended): the rule for translated transcripts holds for .srt files;
\* an .srt file whose stem has no underscore is reported as an original
\* transcript of contentId 'unknown'; a file with a media extension is
\* reported as media with contentId = stem, with or without underscore.
C24_Parse ==
    \A l \in listed :
        /\ (IsTranscript(l) /\ ~EndsWith(Stem(l), UnderscoreOriginal)
               /\ Underscores(Stem(l)) # {}) => SplitAtLastUnderscore(l)
        /\ (IsTranscript(l) /\ Underscores(Stem(l)) = {}) =>
              (l.type = "srt_original" /\ l.video_id = Unknown /\ l.lang = NoLang)
        /\ ~IsTranscript(l) =>
              (l.type = "audio" /\ l.video_id = Stem(l) /\ l.lang = NoLang)

\* C24 witness: a scan reported a translated transcript of an id with
\* underscores, a media file with an underscore and an .srt file without.
C24_Witness ==
    /\ OutputFile(TranslatedName(<<"x", "_", "o", "r", "i", "g", "i", "n", "a", "l", "_", "y">>, <<"z", "h", "_", "C", "N">>), <<"x", "_", "o", "r", "i", "g", "i", "n", "a", "l", "_", "y", "_", "z", "h">>,
                  "srt_translated", <<"C", "N">>) \in listed
    /\ OutputFile(<<"M", "y", "_", "T", "a", "l", "k", ".", "M", "P", "3">>, <<"M", "y", "_", "T", "a", "l", "k">>, "audio", NoLang) \in listed
    /\ OutputFile(<<"n", "o", "t", "e", "s", ".", "s", "r", "t">>, Unknown, "srt_original", NoLang) \in listed


\* The progress entries of the translation engine, as on_trans_progress
\* turns them into percentages
RECURSIVE TransEmitted(_)
TransEmitted(log) ==
    IF log = <<>> THEN <<>>
    ELSE (IF Head(log).ev = "progress"
          THEN on_trans_progress(Head(log).idx, Head(log).total)
          ELSE <<>>) \o TransEmitted(Tail(log))

\* Every value the run has emitted, in order: run() emits 100 after the
\* engine has returned.
AllEmitted ==
    IF emitted # <<>> /\ emitted[Len(emitted)].at = "done"
    THEN SubSeq(emitted, 1, Len(emitted) - 1) \o TransEmitted(tlog)
         \o <<emitted[Len(emitted)]>>
    ELSE emitted \o TransEmitted(tlog)

\* C25: every percentage the run emits is an integer in 0..100; a value
\* emitted for a transcription fraction lies in 10..80 and one emitted for
\* a translation batch in 80..95; 100 is emitted only as the last value of a
\* run that has reached Done.
C25_BlendedPercentage ==
    mode = "gui" =>
    \A k \in 1..Len(AllEmitted) :
       LET e == AllEmitted[k]
       IN  /\ e.p \in 0..100
           /\ e.at = "transcription" => e.p \in 10..80
           /\ e.at = "translation" => e.p \in 80..95
           /\ e.p = 100 => k = Len(AllEmitted) /\ ppc = "done"

\* A finished run with translation: a fraction whose product is a whole
\* number (700 ms of 7 s) emitted as 16, a clamped fraction emitted as 80,
\* both batches reported, 100 last.
C25_Witness ==
    /\ ppc = "done"
    /\ [p \in 1..Len(AllEmitted) |-> AllEmitted[p].p]
          = <<0, 10, 16, 80, 80, 85, 85, 90, 100>>


\* C26: two transcriptions that use the progress capture leave the
\* process-wide standard output as it was before either started, whatever
\* the interleaving of their enter and exit steps.
C26_StdoutRestored ==
    (\A c \in Captures : cpc[c] = "exited") => sys_stdout = "console"


\* A segment that carries the '[Translation Failed: ...]' marker
Failed(m) == segments[m].translated.kind = FailedMarker(<<>>).kind

\* What the iteration logged at position p assigned to the segment at m
Assigned(p, m) ==
    IF tlog[p].ev = "fail" THEN FailedMarker(tlog[p].msg)
    ELSE IF Names(tlog[p].msg[1], m - tlog[p].idx * BATCH_SIZE)
         THEN Tr(segments[m].id) ELSE MissingMarker

\* C27: the failure marker is applied per batch, all or nothing: every
\* segment of a batch carries it or none does; after the fatal credential
\* failure of batch k every segment of batch k carries the marker with that
\* failure's text, and the segments of the batches before k hold what their
\* own iteration assigned.
C27_MarkerAllOrNothing ==
    /\ \A b \in 0..(total_batches - 1) :
          \/ \A m \in BatchMembers(b) : Failed(m)
          \/ \A m \in BatchMembers(b) : ~Failed(m)
    /\ \A p \in LogPositions("fail") : \A m \in BatchMembers(tlog[p].idx) :
          segments[m].translated = FailedMarker(tlog[p].msg)
    /\ tpc = "raised" /\ tlog # <<>> =>
          /\ \A m \in BatchMembers(batch_idx) :
                segments[m].translated = FailedMarker(raised)
          /\ \A p \in LogPositions("ok") \cup LogPositions("fail") :
                \A m \in BatchMembers(tlog[p].idx) :
                   segments[m].translated = Assigned(p, m)

\* C27 witness: a merged batch, a batch that failed and was passed over, and
\* the credential failure in the last, short batch.
C27_Witness ==
    /\ tpc = "raised"
    /\ Len(segments) = 65
    /\ batch_idx = 2
    /\ segments[1].translated = MissingMarker
    /\ segments[30].translated = Tr(30)
    /\ segments[31].translated = FailedMarker(QuotaMsg)
    /\ segments[60].translated = FailedMarker(QuotaMsg)
    /\ segments[61].translated = FailedMarker(UpperKeyMsg)
    /\ segments[65].translated = FailedMarker(UpperKeyMsg)


\* The parts of the history invariant that do not depend on what was stored
HistoryShape ==
    /\ Len(history) <= HISTORY_LIMIT
    /\ \A k \in 1..Len(history) : \A l \in 1..Len(history) :
          history[k].url = history[l].url => k = l
    /\ hlast.n > 0 =>
          /\ history # <<>>
          /\ history[Len(history)].url = hlast.url
          /\ history[Len(history)].last_used = hlast.n

\* The last call re-added a URL that had an entry, without a translated title
ReAdded == hlast.n > 0 /\ hlast.found # NoEntry /\ hlast.title_translated = NoTitle

\* C28 as stated: at most 50 entries, distinct URLs, the most recently added
\* URL last, and re-adding an existing URL without a translated title keeps
\* the entry's stored translated title and target language.
C28_HistoryAsStated ==
    /\ HistoryShape
    /\ ReAdded =>
          /\ history[Len(history)].title_translated = hlast.found.title_translated
          /\ history[Len(history)].target_lang = hlast.found.target_lang

\* C28 amended: the stored translated title and target language are kept
\* when the stored translated title is not empty; otherwise the entry has no
\* translated title and takes the target language of the call.
C28_History ==
    /\ HistoryShape
    /\ ReAdded =>
          LET e == history[Len(history)]
          IN  IF Truthy(hlast.found.title_translated)
              THEN /\ e.title_translated = hlast.found.title_translated
                   /\ e.target_lang = hlast.found.target_lang
              ELSE /\ e.title_translated = NoTitle
                   /\ e.target_lang = hlast.target_lang

\* C28 witness: a full history; a new URL pushed the oldest entry out, then
\* the entry with a translated title was re-added without one and moved to
\* the end with its title and language.
C28_Witness ==
    /\ Len(history) = HISTORY_LIMIT
    /\ hlast.n = 2
    /\ ReAdded
    /\ hlast.target_lang = "en"
    /\ history[1].url = 2
    /\ history[HISTORY_LIMIT - 1].url = 51
    /\ history[HISTORY_LIMIT] =
          [url |-> 3, title_original |-> "A", title_translated |-> "T",
           target_lang |-> "zh-CN", last_used |-> 2]
    /\ hist_saved = history
    /\ hist_ui[1] = history[HISTORY_LIMIT]


\* C29: delete_output(A) removes nothing that was written for another
\* content id, and when it answers deleted = true nothing written for A is
\* left, in folders or as flat files.
C29_DeletesOnlyItsOwn ==
    del_last.called =>
        /\ \A e \in del_last.removed : e.owner = del_last.video_id
        /\ del_last.ok /\ del_last.deleted =>
              \A e \in out_tree : e.owner # del_last.video_id


\* C30: once the config endpoint has set download_dir to d and saved the
\* record, every later load (get config, download, list downloads) gives a
\* record whose download_dir is d; and a record loaded at the start of an
\* operation has every field the operation reads.
C30_ConfigRoundTrip ==
    cfg_last.op \in {"get_config", "download", "list_downloads"} =>
        /\ cfg_last.ok
        /\ cfg_want # "" => cfg_last.download_dir = cfg_want

====
